---------------------------- MODULE Spec2Model ----------------------------
(***************************************************************************)
(* Verification model of parts of rucene:                                  *)
(*   - core/search/scorer/disjunction_scorer.rs (DisjunctionSumScorer,     *)
(*     DisjunctionMaxScorer, SimpleQueue, SubScorers)                      *)
(*   - core/util/bits.rs (SparseBits and its cursor)                       *)
(*   - core/codec/norms/norm_values_writer.rs (NormValuesWriter,           *)
(*     NumericIter)                                                        *)
(*   - core/search/explanation.rs (Explanation)                            *)
(*   - core/index/term.rs (Term)                                           *)
(*   - the index writer (IndexWriter, driven by tests/integration.rs): its *)
(*     documents, deletes, commits and write.lock                          *)
(* Each component has its own specification; the variables of the other    *)
(* components stay at their idle values.                                   *)
(***************************************************************************)
EXTENDS Integers, Sequences, FiniteSets, TLC

(***************************************************************************)
(* Bounds of the model.                                                    *)
(***************************************************************************)
\* doc ids of the children's posting lists are drawn from 0 .. MaxDoc-1
MaxDoc == 2
\* number of distinct posting lists among the children
MaxSmall == 2
\* largest min_should_match tried
MaxMsm == 2
\* SparseBits: doc ids are drawn from 0 .. MaxSparseDoc-1, max_doc from 0 .. MaxSparseDoc
MaxSparseDoc == 4
\* SparseBits: how far past doc_ids_length failed calls may push ctx.index
MaxOverrun == 1
\* NormValuesWriter: doc ids are drawn from 0 .. MaxNormDoc-1 and the first doc
\* id past the initial bit set; values from 0 .. MaxNormVal
MaxNormDoc == 2
MaxNormVal == 2
\* Explanation: values are drawn from 0 .. MaxExplVal, trees are at most
\* MaxExplDepth deep
MaxExplVal == 2
MaxExplDepth == 3
\* Term: field names hold at most MaxFieldLen chars; the terms that are
\* compared hold at most MaxOrderLen bytes, the terms whose text is taken at
\* most MaxTermLen bytes or MaxStrLen chars
MaxFieldLen == 1
MaxOrderLen == 2
MaxTermLen == 3
MaxStrLen == 1
\* IndexWriter: writers opened on the directory, and the successful
\* add/update, delete and commit calls made
MaxWriters == 2
MaxAdds == 2
MaxDeletes == 1
MaxCommits == 2
\* commit protocol: segments ever named, readers, segments_N generations
\* written and crashes
MaxSegments == 2
MaxReaders == 1
MaxGen == 3
MaxCrashes == 1
\* FixedBits: number of 64-bit words in the backing array
MaxWords == 2

(***************************************************************************)
(* Program constants.                                                      *)
(***************************************************************************)
NO_MORE_DOCS == 2147483647
DEFAULT_MIN_SHOULD_MATCH == 1
\* children.len() < 10 selects the simple queue
SimpleQueueLimit == 10
\* stand-in for f32::NEG_INFINITY: below every score and every sum of scores
NEG_INFINITY == -1000000
\* NormValuesWriter: MISSING, and the size of the initial FixedBitSet
MISSING == 0
InitialBits == 64

VARIABLES
    \* ---- disjunction scorer -------------------------------------------
    kind,                   \* "sum" (DisjunctionSumScorer) or "max" (DisjunctionMaxScorer)
    min_should_match,       \* DisjunctionSumScorer.min_should_match
    needs_scores,           \* .needs_scores
    tie_breaker_multiplier, \* DisjunctionMaxScorer.tie_breaker_multiplier
    postings,               \* child i iterates the doc ids postings[i], ascending
    scores,                 \* child i's score() while positioned on a doc
    lenient,                \* what a child does on advance(target) with target <= doc_id
    rep,                    \* "SQ" (SubScorers::SQ) or "DPQ" (SubScorers::DPQ)
    cost,                   \* .cost
    docs,                   \* docs[i] = doc_id() of child i
    curr_doc,               \* SimpleQueue.curr_doc
    hung,                   \* a call that never returns is in progress
    call,                   \* the last positioning call: [op, target, prev, ret]
    emitted,                \* [only_next, docs]: the docs returned by next() so far,
                            \* kept while next() is the only call made
    lastScore,              \* result of score() at the current position: [value, scored]
    \* ---- SparseBits --------------------------------------------------
    sparse,                 \* SparseBits: [status, max_doc, doc_ids_length, first_doc_id, doc_ids]
    ctx,                    \* the caller's SparseBitsContext: [index, doc_id, next_doc_id]
    bitsCall,               \* the last get: [op, doc_id, prev, res, clean]
    sparseArgs,             \* the arguments of SparseBits::new: [max_doc, doc_ids]
    \* ---- NormValuesWriter --------------------------------------------
    norms,                  \* NormValuesWriter: [pending, docs_with_field, last_doc]
    added,                  \* the (doc id, value) pairs passed to add_value
    iter,                   \* NumericIter handed to the consumer by flush:
                            \* [state, upto, max_doc, values_upto, out]
    \* ---- Explanation -------------------------------------------------
    expl,                   \* the Explanation built last
    explArgs,               \* the arguments of the Explanation::new call that built it
    \* ---- Term --------------------------------------------------------
    terms,                  \* [a, b, src]: two Terms and how they were made
    termCall,               \* the last call on them: [op, ord, eq, out]
    \* ---- IndexWriter -------------------------------------------------
    lock,                   \* the writer holding write.lock, 0 when it is free
    wr,                     \* wr[w]: [state, buffer, deletes] of writer w
    index,                  \* the latest commit: [gen, counter, segments]
    wcall,                  \* the last call on a writer: [op, w, res, doc_id]
    seen,                   \* what the callers have done: [adds, buffered,
                            \* flushed, pending, committed, deletes, updates]
    \* ---- FixedBits ---------------------------------------------------
    fixed,                  \* [len, bits]: bits[w] holds the positions of the
                            \* bits set in the w-th word
    fixedCall,              \* the last call on it: [op, on, index, res]
    \* ---- children that fail -----------------------------------------
    fault,                  \* [child, at, err]: the child that fails, the doc
                            \* it fails on, whether the last call failed
    \* ---- the two queues side by side ----------------------------------
    twin,                   \* the same children under a DisiPriorityQueue:
                            \* [docs, hung, ret, score]
    \* ---- commit protocol and segment files ---------------------------
    disk,                   \* the directory: [temp, unsynced, synced, sis]
    mem,                    \* the process: [down, infos, counter, cstep,
                            \* refcount, opened, crashes, doneGen]
    ccall                   \* the last step taken: [op, arg]

disjVars == <<kind, min_should_match, needs_scores, tie_breaker_multiplier,
              postings, scores, lenient, rep, cost, docs, curr_doc, hung, call,
              emitted, lastScore>>

sparseVars == <<sparse, ctx, bitsCall, sparseArgs>>

normVars == <<norms, added, iter>>

explVars == <<expl, explArgs>>

termVars == <<terms, termCall>>

writerVars == <<lock, wr, index, wcall, seen>>

commitVars == <<disk, mem, ccall>>

equivVars == <<twin>>

fixedVars == <<fixed, fixedCall>>

faultVars == <<fault>>

vars == <<disjVars, sparseVars, normVars, explVars, termVars, writerVars,
          commitVars, equivVars, fixedVars, faultVars>>

notDisj == <<sparseVars, normVars, explVars, termVars, writerVars, commitVars,
             equivVars, fixedVars, faultVars>>
notSparse == <<disjVars, normVars, explVars, termVars, writerVars, commitVars,
             equivVars, fixedVars, faultVars>>
notNorms == <<disjVars, sparseVars, explVars, termVars, writerVars, commitVars,
             equivVars, fixedVars, faultVars>>
notExpl == <<disjVars, sparseVars, normVars, termVars, writerVars, commitVars,
             equivVars, fixedVars, faultVars>>
notTerm == <<disjVars, sparseVars, normVars, explVars, writerVars, commitVars,
             equivVars, fixedVars, faultVars>>
notWriter == <<disjVars, sparseVars, normVars, explVars, termVars, commitVars,
             equivVars, fixedVars, faultVars>>
notCommit == <<disjVars, sparseVars, normVars, explVars, termVars, writerVars,
               equivVars, fixedVars, faultVars>>

(***************************************************************************)
(* Helpers.                                                                *)
(***************************************************************************)
Min2(a, b) == IF a < b THEN a ELSE b
Max2(a, b) == IF a > b THEN a ELSE b

DocUniverse == 0 .. (MaxDoc - 1)
ChildCounts == (1 .. MaxSmall) \cup {SimpleQueueLimit}
NoCall == [op |-> "none", target |-> -1, prev |-> -1, ret |-> -1]
NoScore == [value |-> 0, scored |-> {}, valid |-> FALSE]
NoneEmitted == [only_next |-> TRUE, docs |-> {}]
NoFault == [child |-> 0, at |-> -1, err |-> FALSE]
NoTwin == [docs |-> <<>>, hung |-> FALSE, ret |-> -1, score |-> NoScore]
Targets == 0 .. MaxDoc
\* the children's scores: distinct, of both signs
ChildScores(n) == [i \in 1 .. n |-> IF i % 2 = 1 THEN i ELSE 0 - i]

(***************************************************************************)
(* Child scorers.  A child is a strictly ascending doc iterator over its   *)
(* posting list, starting at -1.                                           *)
(***************************************************************************)
\* first doc id of posting list p that is >= t, or NO_MORE_DOCS
FirstAtLeast(p, t) ==
    IF \E d \in p : d >= t
    THEN CHOOSE d \in p : d >= t /\ \A e \in p : e >= t => d <= e
    ELSE NO_MORE_DOCS

\* child.approximate_next(): the next doc id after d; stays at NO_MORE_DOCS
ChildNext(p, d) ==
    IF d = NO_MORE_DOCS THEN NO_MORE_DOCS ELSE FirstAtLeast(p, d + 1)

\* child.approximate_advance(t).  For t <= doc_id the iterator contract
\* leaves the result open: the child stays (lenient = "stay") or moves to
\* its next doc (lenient = "step").
ChildAdvance(p, d, t, len) ==
    IF t > d THEN FirstAtLeast(p, t)
    ELSE IF len = "stay" THEN d
    ELSE ChildNext(p, d)

(***************************************************************************)
(* SimpleQueue and SubScorers.                                             *)
(***************************************************************************)
\* minimum of the children's doc ids, starting from NO_MORE_DOCS
MinDoc(ds) ==
    LET S == {ds[i] : i \in 1 .. Len(ds)} \cup {NO_MORE_DOCS}
    IN  CHOOSE m \in S : \A x \in S : m <= x

\* (variant: curr_doc is not folded over the children)
SimpleQueueNewUnfolded(ds) == NO_MORE_DOCS

\* SimpleQueue::new
SimpleQueueNew(ds) == MinDoc(ds)

\* (variant: the choice looks at the number of children only)
SumScorerRepBySize(n, msm) ==
    IF n < SimpleQueueLimit THEN "SQ" ELSE "DPQ"

\* DisjunctionSumScorer::new / DisjunctionMaxScorer::new: choice of the queue
SumScorerRep(n, msm) ==
    IF n < SimpleQueueLimit \/ msm > DEFAULT_MIN_SHOULD_MATCH THEN "SQ" ELSE "DPQ"

MaxScorerRep(n) ==
    IF n < SimpleQueueLimit THEN "SQ" ELSE "DPQ"

\* DisiPriorityQueue::peek: a child with the least doc id (the lowest index
\* among them)
Top(ds) ==
    LET m == MinDoc(ds)
        S == {i \in 1 .. Len(ds) : ds[i] = m}
    IN  CHOOSE i \in S : \A j \in S : i <= j

\* DisiPriorityQueue::top_list: all children positioned on the top's doc
TopList(ds) == LET m == MinDoc(ds) IN {i \in 1 .. Len(ds) : ds[i] = m}

\* SubScorers::doc_id
SubDocId(r, ds, cur) == IF r = "SQ" THEN cur ELSE MinDoc(ds)

\* (variant: counts every child, whatever its doc)
ShouldCountAll(ds, d) == Len(ds)

\* number of children positioned on doc d
ShouldCount(ds, d) == Cardinality({i \in 1 .. Len(ds) : ds[i] = d})

\* one pass of the simple queue's loop body: every child on curr_doc moves on
SQNextPass(ps, ds, cur) ==
    [i \in 1 .. Len(ds) |-> IF ds[i] = cur THEN ChildNext(ps[i], ds[i]) ELSE ds[i]]

\* (variant: min_doc is folded over the children as they were before the
\* pass)
SQNextStaleMin(ps, ds, cur, msm) ==
    IF cur = NO_MORE_DOCS THEN [docs |-> ds, curr_doc |-> cur]
    ELSE [docs |-> SQNextPass(ps, ds, cur),
          curr_doc |-> MinDoc([i \in 1 .. Len(ds) |->
                                 IF ds[i] = cur THEN NO_MORE_DOCS ELSE ds[i]])]

\* SubScorers::approximate_next, SQ arm
RECURSIVE SQNext(_, _, _, _)
SQNext(ps, ds, cur, msm) ==
    IF cur = NO_MORE_DOCS THEN [docs |-> ds, curr_doc |-> cur]
    ELSE CHOOSE r \in
           {IF msm > DEFAULT_MIN_SHOULD_MATCH /\ ShouldCount(ds2, MinDoc(ds2)) < msm
            THEN SQNext(ps, ds2, MinDoc(ds2), msm)
            ELSE [docs |-> ds2, curr_doc |-> MinDoc(ds2)]
              : ds2 \in {SQNextPass(ps, ds, cur)}} : TRUE

\* (variant: the top is moved once, without the loop)
DPQNextOnce(ps, ds, doc) ==
    LET t == Top(ds) IN [ds EXCEPT ![t] = ChildNext(ps[t], ds[t])]

\* SubScorers::approximate_next, DPQ arm: the loop ends when the top leaves doc
RECURSIVE DPQNext(_, _, _)
DPQNext(ps, ds, doc) ==
    CHOOSE r \in
      {IF MinDoc(ds2) # doc THEN ds2 ELSE DPQNext(ps, ds2, doc)
         : ds2 \in {[ds EXCEPT ![t] = ChildNext(ps[t], ds[t])] : t \in {Top(ds)}}} : TRUE

\* the DPQ loop of approximate_next never ends when the top cannot leave doc
DPQNextDiverges(ds) == MinDoc(ds) = NO_MORE_DOCS

\* (variant: min_doc is taken before the children are advanced)
SQAdvanceStaleMin(ps, ds, target, len) ==
    LET ds2 == [i \in 1 .. Len(ds) |->
                   IF ds[i] < target THEN ChildAdvance(ps[i], ds[i], target, len)
                   ELSE ds[i]]
    IN  [docs |-> ds2, curr_doc |-> MinDoc(ds)]

\* SubScorers::approximate_advance, SQ arm
SQAdvance(ps, ds, target, len) ==
    LET ds2 == [i \in 1 .. Len(ds) |->
                   IF ds[i] < target THEN ChildAdvance(ps[i], ds[i], target, len)
                   ELSE ds[i]]
    IN  [docs |-> ds2, curr_doc |-> MinDoc(ds2)]

\* SubScorers::approximate_advance, DPQ arm
RECURSIVE DPQAdvance(_, _, _, _)
DPQAdvance(ps, ds, target, len) ==
    CHOOSE r \in
      {IF MinDoc(ds2) >= target THEN ds2 ELSE DPQAdvance(ps, ds2, target, len)
         : ds2 \in {[ds EXCEPT ![t] = ChildAdvance(ps[t], ds[t], target, len)]
                      : t \in {Top(ds)}}} : TRUE

\* the children approximate_advance(target) is called on, SQ arm: those
\* behind the target
SQAdvanceCalled(ds, target) == {i \in 1 .. Len(ds) : ds[i] < target}

\* the children approximate_advance(target) is called on, DPQ arm: the top
\* of every turn of the loop, the first turn taken whatever the top's doc
RECURSIVE DPQAdvanceCalled(_, _, _, _)
DPQAdvanceCalled(ps, ds, target, len) ==
    CHOOSE r \in
      {{t} \cup (IF MinDoc(ds2) >= target THEN {}
                 ELSE DPQAdvanceCalled(ps, ds2, target, len))
         : <<t, ds2>> \in {<<Top(ds), [ds EXCEPT ![Top(ds)] =
                              ChildAdvance(ps[Top(ds)], ds[Top(ds)], target, len)]>>}}
      : TRUE

AdvanceCalled(r, ps, ds, target, len) ==
    IF r = "SQ" THEN SQAdvanceCalled(ds, target)
    ELSE DPQAdvanceCalled(ps, ds, target, len)

(***************************************************************************)
(* Scores.                                                                 *)
(***************************************************************************)
\* (variant: children past curr_doc are scored too)
SQScoredLoose(ds, cur) == {i \in 1 .. Len(ds) : ds[i] >= cur /\ ds[i] < NO_MORE_DOCS}

\* SubScorers::score_sum, SQ arm: children whose doc_id is curr_doc
SQScored(ds, cur) == {i \in 1 .. Len(ds) : ds[i] = cur}

RECURSIVE SumOver(_, _)
SumOver(sc, S) ==
    IF S = {} THEN 0
    ELSE LET i == CHOOSE x \in S : TRUE IN sc[i] + SumOver(sc, S \ {i})

RECURSIVE MaxOver(_, _)
MaxOver(sc, S) ==
    IF S = {} THEN NEG_INFINITY
    ELSE LET i == CHOOSE x \in S : TRUE IN Max2(sc[i], MaxOver(sc, S \ {i}))

\* SubScorers::score_sum
ScoreSum(r, sc, ds, cur) ==
    LET S == IF r = "SQ" THEN SQScored(ds, cur) ELSE TopList(ds)
    IN  [value |-> SumOver(sc, S), scored |-> S, valid |-> TRUE]

\* (variant: the maximum is not taken out of the sum)
ScoreMaxWholeSum(r, sc, ds, cur, tie) ==
    LET S == IF r = "SQ" THEN SQScored(ds, cur) ELSE TopList(ds)
        score_sum == SumOver(sc, S)
        score_max == MaxOver(sc, S)
    IN  [value |-> score_max + score_sum * tie, scored |-> S, valid |-> TRUE]

\* SubScorers::score_max
ScoreMax(r, sc, ds, cur, tie) ==
    LET S == IF r = "SQ" THEN SQScored(ds, cur) ELSE TopList(ds)
        score_sum == SumOver(sc, S)
        score_max == MaxOver(sc, S)
    IN  [value |-> score_max + (score_sum - score_max) * tie,
         scored |-> S, valid |-> TRUE]

\* the children's cost(): child i's doc count, and one more for every second
\* child (an estimate that is no exact count)
ChildCosts(ps) == [i \in 1 .. Len(ps) |-> Cardinality(ps[i]) + ((i - 1) % 2)]

CostOfFirst(cs) == cs[1]

\* children.iter().map(|w| w.cost()).sum()
SumCosts(cs) ==
    LET RECURSIVE Sum(_)
        Sum(i) == IF i > Len(cs) THEN 0 ELSE cs[i] + Sum(i + 1)
    IN  Sum(1)

(***************************************************************************)
(* Idle values: a specification leaves the components it is not about      *)
(* unbuilt.                                                                *)
(***************************************************************************)
DisjIdle ==
    /\ kind = "sum" /\ min_should_match = DEFAULT_MIN_SHOULD_MATCH
    /\ needs_scores = FALSE /\ tie_breaker_multiplier = 0
    /\ postings = <<>> /\ scores = <<>> /\ lenient = "stay"
    /\ rep = "SQ" /\ cost = 0 /\ docs = <<>> /\ curr_doc = NO_MORE_DOCS
    /\ hung = FALSE /\ call = NoCall /\ emitted = NoneEmitted
    /\ lastScore = NoScore
    /\ twin = NoTwin
    /\ fault = NoFault

NoIter == [state |-> "none", upto |-> 0, max_doc |-> 0, values_upto |-> 0,
           out |-> <<>>, replayed |-> FALSE]

NormsIdle ==
    /\ norms = [pending |-> <<>>,
                docs_with_field |-> [num_bits |-> 0, bits |-> {}],
                last_doc |-> -1]
    /\ added = {}
    /\ iter = NoIter

NoExplanation == [is_match |-> FALSE, value |-> 0, description |-> "", details |-> <<>>]

ExplIdle ==
    /\ expl = NoExplanation
    /\ explArgs = [called |-> FALSE, is_match |-> FALSE, value |-> 0,
                   description |-> "", details |-> <<>>]

NoTerm == [field |-> <<>>, bytes |-> <<>>]
NoTermCall == [op |-> "none", ord |-> "Equal", eq |-> TRUE, out |-> <<>>]

TermIdle ==
    /\ terms = [a |-> NoTerm, b |-> NoTerm, src |-> [ctor |-> "none", text |-> <<>>]]
    /\ termCall = NoTermCall

Writers == 1 .. MaxWriters
NoWriter == [state |-> "None", buffer |-> <<>>, deletes |-> <<>>]
NoWriterCall == [op |-> "none", w |-> 0, res |-> "none", doc_id |-> -1]
NothingSeen == [adds |-> <<>>, buffered |-> {}, flushed |-> {}, pending |-> {},
                committed |-> {}, deletes |-> 0, updates |-> {}]
EmptyIndex == [gen |-> 0, counter |-> 0, segments |-> <<>>]

WriterIdle ==
    /\ lock = 0
    /\ wr = [w \in Writers |-> NoWriter]
    /\ index = EmptyIndex
    /\ wcall = NoWriterCall
    /\ seen = NothingSeen

Readers == 1 .. MaxReaders
SegmentNames == 1 .. MaxSegments
\* the directory of a new index: no segment files, segments_1 naming no segment
NewDirectory ==
    [temp |-> {}, unsynced |-> {}, synced |-> {},
     sis |-> {[gen |-> 1, segs |-> {}, counter |-> 0, complete |-> TRUE]}]
NewProcess ==
    [down |-> FALSE, infos |-> {}, counter |-> 0, cstep |-> "idle",
     refcount |-> [n \in SegmentNames |-> 0],
     opened |-> [r \in Readers |-> [open |-> FALSE, segs |-> {}]],
     crashes |-> 0, doneGen |-> 1]
NoCommitCall == [op |-> "none", arg |-> {}]

CommitIdle ==
    /\ disk = NewDirectory
    /\ mem = NewProcess
    /\ ccall = NoCommitCall

(***************************************************************************)
(* SparseBits (core/util/bits.rs).                                         *)
(***************************************************************************)
SparseDocs == 0 .. (MaxSparseDoc - 1)

SparseIdle ==
    /\ sparse = [status |-> "idle", max_doc |-> 0, doc_ids_length |-> 0,
                 first_doc_id |-> 0, doc_ids |-> <<>>]
    /\ ctx = [index |-> -1, doc_id |-> -1, next_doc_id |-> 0]
    /\ bitsCall = [op |-> "none", doc_id |-> -1, prev |-> -1, res |-> "none",
                   clean |-> TRUE]
    /\ sparseArgs = [max_doc |-> 0, doc_ids |-> <<>>]
    /\ fixed = [len |-> 0, bits |-> <<>>]
    /\ fixedCall = [op |-> "none", on |-> "FixedBits", index |-> -1, res |-> "none"]

\* the strictly ascending sequence of the doc ids in S
RECURSIVE Ascending(_)
Ascending(S) ==
    IF S = {} THEN <<>>
    ELSE LET m == CHOOSE x \in S : \A y \in S : x <= y
         IN  <<m>> \o Ascending(S \ {m})

\* LongValues::get64 on doc_ids, for an index inside the array
IdAt(sb, i) == sb.doc_ids[i + 1]

\* index i is inside doc_ids
InIds(sb, i) == i >= 0 /\ i < sb.doc_ids_length

\* SparseBitsContext::new / reset
ContextNew(first_doc_id) ==
    [index |-> -1, doc_id |-> -1, next_doc_id |-> first_doc_id]

\* (variant: max_doc may equal the last doc id)
SparseBitsNewLax(max_doc, ids) ==
    IF Len(ids) > 0 /\ max_doc < ids[Len(ids)]
    THEN [status |-> "IllegalArgument", max_doc |-> 0, doc_ids_length |-> 0,
          first_doc_id |-> 0, doc_ids |-> <<>>]
    ELSE [status |-> "ok", max_doc |-> max_doc, doc_ids_length |-> Len(ids),
          first_doc_id |-> (IF Len(ids) = 0 THEN max_doc ELSE ids[1]),
          doc_ids |-> ids]

\* SparseBits::new
SparseBitsNew(max_doc, ids) ==
    IF Len(ids) > 0 /\ max_doc <= ids[Len(ids)]
    THEN [status |-> "IllegalArgument", max_doc |-> 0, doc_ids_length |-> 0,
          first_doc_id |-> 0, doc_ids |-> <<>>]
    ELSE [status |-> "ok", max_doc |-> max_doc, doc_ids_length |-> Len(ids),
          first_doc_id |-> (IF Len(ids) = 0 THEN max_doc ELSE ids[1]),
          doc_ids |-> ids]

\* the loop of SparseBits::gallop
RECURSIVE GallopLoop(_, _, _, _)
GallopLoop(sb, c, hi_index, doc_id) ==
    IF hi_index >= sb.doc_ids_length
    THEN [ctx |-> [c EXCEPT !.next_doc_id = sb.max_doc], hi |-> sb.doc_ids_length]
    ELSE IF IdAt(sb, hi_index) > doc_id
    THEN [ctx |-> [c EXCEPT !.next_doc_id = IdAt(sb, hi_index)], hi |-> hi_index]
    ELSE GallopLoop(sb,
                    [c EXCEPT !.index = hi_index, !.doc_id = IdAt(sb, hi_index)],
                    hi_index + 2 * (hi_index - c.index),
                    doc_id)

\* SparseBits::gallop
Gallop(sb, c, doc_id) ==
    GallopLoop(sb, [c EXCEPT !.index = c.index + 1, !.doc_id = c.next_doc_id],
               c.index + 2, doc_id)

\* SparseBits::binary_search
RECURSIVE BinarySearch(_, _, _, _)
BinarySearch(sb, c, hi_index, doc_id) ==
    IF c.index + 1 < hi_index
    THEN LET mid_index == c.index + ((hi_index - c.index) \div 2)
             mid_doc_id == IdAt(sb, mid_index)
         IN  IF mid_doc_id > doc_id
             THEN BinarySearch(sb, [c EXCEPT !.next_doc_id = mid_doc_id],
                               mid_index, doc_id)
             ELSE BinarySearch(sb, [c EXCEPT !.index = mid_index,
                                             !.doc_id = mid_doc_id],
                               hi_index, doc_id)
    ELSE c

\* (variant: the first test compares ctx.doc_id only)
CheckInvariantsNoUpper(sb, c, next_index, doc_id) ==
    IF c.doc_id > doc_id THEN "IllegalState"
    ELSE IF c.index = -1 /\ c.doc_id = -1 THEN
        (IF next_index = sb.doc_ids_length /\ c.next_doc_id = sb.max_doc THEN "ok"
         ELSE IF ~InIds(sb, next_index) THEN "OutOfBounds"
         ELSE IF c.next_doc_id = IdAt(sb, next_index) THEN "ok"
         ELSE "IllegalState")
    ELSE IF ~InIds(sb, c.index) THEN "OutOfBounds"
    ELSE IF c.doc_id # IdAt(sb, c.index) THEN "IllegalState"
    ELSE IF next_index = sb.doc_ids_length /\ c.next_doc_id = sb.max_doc THEN "ok"
    ELSE IF ~InIds(sb, next_index) THEN "OutOfBounds"
    ELSE IF c.next_doc_id = IdAt(sb, next_index) THEN "ok"
    ELSE "IllegalState"

\* SparseBits::check_invariants: "ok", "IllegalState", or "OutOfBounds" when
\* doc_ids is read outside 0 .. doc_ids_length-1
CheckInvariants(sb, c, next_index, doc_id) ==
    IF c.doc_id > doc_id \/ c.next_doc_id <= doc_id THEN "IllegalState"
    ELSE IF c.index = -1 /\ c.doc_id = -1 THEN
        (IF next_index = sb.doc_ids_length /\ c.next_doc_id = sb.max_doc THEN "ok"
         ELSE IF ~InIds(sb, next_index) THEN "OutOfBounds"
         ELSE IF c.next_doc_id = IdAt(sb, next_index) THEN "ok"
         ELSE "IllegalState")
    ELSE IF ~InIds(sb, c.index) THEN "OutOfBounds"
    ELSE IF c.doc_id # IdAt(sb, c.index) THEN "IllegalState"
    ELSE IF next_index = sb.doc_ids_length /\ c.next_doc_id = sb.max_doc THEN "ok"
    ELSE IF ~InIds(sb, next_index) THEN "OutOfBounds"
    ELSE IF c.next_doc_id = IdAt(sb, next_index) THEN "ok"
    ELSE "IllegalState"

\* SparseBits::exponential_search: the cursor it leaves and its outcome
ExponentialSearch(sb, c, doc_id) ==
    LET g == Gallop(sb, c, doc_id)
        chk == CheckInvariants(sb, g.ctx, g.hi, doc_id)
    IN  IF chk # "ok" THEN [ctx |-> g.ctx, res |-> chk]
        ELSE [ctx |-> BinarySearch(sb, g.ctx, g.hi, doc_id), res |-> "ok"]

\* (variant: get64 answers without its closing check_invariants)
Get64Unchecked(sb, c, doc_id) ==
    LET c0 == IF doc_id < c.doc_id THEN ContextNew(sb.first_doc_id) ELSE c
        e == IF doc_id >= c0.next_doc_id THEN ExponentialSearch(sb, c0, doc_id)
             ELSE [ctx |-> c0, res |-> "ok"]
    IN  IF e.res # "ok" THEN e
        ELSE [ctx |-> e.ctx, res |-> IF doc_id = e.ctx.doc_id THEN "true" ELSE "false"]

\* (variant: a backward read does not reset the cursor)
Get64NoReset(sb, c, doc_id) ==
    LET e == IF doc_id >= c.next_doc_id THEN ExponentialSearch(sb, c, doc_id)
             ELSE [ctx |-> c, res |-> "ok"]
        chk == CheckInvariants(sb, e.ctx, e.ctx.index + 1, doc_id)
    IN  IF e.res # "ok" THEN e
        ELSE IF chk # "ok" THEN [ctx |-> e.ctx, res |-> chk]
        ELSE [ctx |-> e.ctx, res |-> IF doc_id = e.ctx.doc_id THEN "true" ELSE "false"]

\* SparseBits::get64: the cursor it leaves and "true", "false" or the error
Get64(sb, c, doc_id) ==
    LET c0 == IF doc_id < c.doc_id THEN ContextNew(sb.first_doc_id) ELSE c
        e == IF doc_id >= c0.next_doc_id THEN ExponentialSearch(sb, c0, doc_id)
             ELSE [ctx |-> c0, res |-> "ok"]
        chk == CheckInvariants(sb, e.ctx, e.ctx.index + 1, doc_id)
    IN  IF e.res # "ok" THEN e
        ELSE IF chk # "ok" THEN [ctx |-> e.ctx, res |-> chk]
        ELSE [ctx |-> e.ctx, res |-> IF doc_id = e.ctx.doc_id THEN "true" ELSE "false"]

\* SparseBits::new over any ascending doc ids and any max_doc
SparseInit ==
    /\ DisjIdle /\ NormsIdle /\ ExplIdle /\ TermIdle /\ WriterIdle /\ CommitIdle
    /\ \E S \in SUBSET SparseDocs : \E m \in 0 .. MaxSparseDoc :
          /\ sparseArgs = [max_doc |-> m, doc_ids |-> Ascending(S)]
          /\ fixed = [len |-> 0, bits |-> <<>>]
          /\ fixedCall = [op |-> "none", on |-> "FixedBits", index |-> -1, res |-> "none"]
          /\ sparse = SparseBitsNew(m, Ascending(S))
          /\ ctx = ContextNew(sparse.first_doc_id)
    /\ bitsCall = [op |-> "none", doc_id |-> -1, prev |-> -1, res |-> "none",
                   clean |-> TRUE]

\* SparseBits::get64 through the caller's cursor (BitsMut::get does the same
\* through self.ctx)
SparseGet64(doc_id) ==
    /\ sparse.status = "ok"
    /\ ctx.index < sparse.doc_ids_length + MaxOverrun
    /\ \E r \in {Get64(sparse, ctx, doc_id)} :
          /\ ctx' = r.ctx
          /\ bitsCall' = [op |-> "get64", doc_id |-> doc_id,
                          prev |-> bitsCall.doc_id, res |-> r.res,
                          clean |-> bitsCall.clean /\ doc_id < sparse.max_doc]
    /\ UNCHANGED <<sparse, sparseArgs>>
    /\ UNCHANGED notSparse

\* Bits::get: get64 with a fresh context, unwrapped
SparseBitsGet(doc_id) ==
    /\ sparse.status = "ok"
    /\ \E r \in {Get64(sparse, ContextNew(sparse.first_doc_id), doc_id)} :
          bitsCall' = [op |-> "get", doc_id |-> doc_id, prev |-> bitsCall.doc_id,
                       res |-> (IF r.res \in {"true", "false"} THEN r.res ELSE "panic"),
                       clean |-> bitsCall.clean]
    /\ UNCHANGED <<sparse, ctx, sparseArgs>>
    /\ UNCHANGED notSparse

SparseNext ==
    \/ \E doc_id \in 0 .. MaxSparseDoc : SparseGet64(doc_id)
    \/ \E doc_id \in 0 .. MaxSparseDoc : SparseBitsGet(doc_id)


(***************************************************************************)
(* FixedBits (core/util/bits.rs).  A word of the backing Vec<i64> is the    *)
(* set of the positions 0 .. 63 of its bits that are 1, position 63 being   *)
(* the sign bit; the words of the model have bits among WordBits.          *)
(***************************************************************************)
WordBits == {0, 1, 63}

\* the bit positions the calls and the lengths are drawn from: the WordBits
\* of every word of the longest array and of the word after it
FixedPositions == {64 * w + b : w \in 0 .. MaxWords, b \in WordBits}

FixedLens == {0} \cup FixedPositions \cup {p + 1 : p \in FixedPositions}

FixedArrays ==
    UNION {[1 .. n -> SUBSET WordBits] : n \in 0 .. MaxWords}

\* FixedBits::new
FixedBitsNew(bits, len) == [len |-> len, bits |-> bits]

\* 1i64 << k for k in 0 .. 63: the word with bit k alone
ShiftLeftOne(k) == {k}

\* a & b != 0
AndNonZero(a, b) == a \cap b # {}

\* FixedBits::get past the debug_assert: self.bits[i] panics when i is no
\* index of the Vec
FixedBitsGet(fb, idx) ==
    LET i == idx \div 64
        bit_mask == ShiftLeftOne(idx % 64)
    IN  IF i >= Len(fb.bits) THEN "panic"
        ELSE IF AndNonZero(fb.bits[i + 1], bit_mask) THEN "true" ELSE "false"

\* FixedBits::len
FixedBitsLen(fb) == fb.len

FixedInit ==
    /\ \E bits \in FixedArrays, len \in FixedLens : fixed = FixedBitsNew(bits, len)
    /\ fixedCall = [op |-> "none", on |-> "FixedBits", index |-> -1, res |-> "none"]
    /\ DisjIdle /\ NormsIdle /\ ExplIdle /\ TermIdle /\ WriterIdle /\ CommitIdle
    /\ sparse = [status |-> "idle", max_doc |-> 0, doc_ids_length |-> 0,
                 first_doc_id |-> 0, doc_ids |-> <<>>]
    /\ ctx = [index |-> -1, doc_id |-> -1, next_doc_id |-> 0]
    /\ bitsCall = [op |-> "none", doc_id |-> -1, prev |-> -1, res |-> "none",
                   clean |-> TRUE]
    /\ sparseArgs = [max_doc |-> 0, doc_ids |-> <<>>]

\* Bits::get of FixedBits; for an index >= len the debug_assert panics in a
\* debug build and is absent from a release build
FixedGet(idx) ==
    /\ \E res \in {FixedBitsGet(fixed, idx)}
                  \cup (IF idx < fixed.len THEN {} ELSE {"panic"}) :
          fixedCall' = [op |-> "get", on |-> "FixedBits", index |-> idx, res |-> res]
    /\ UNCHANGED fixed
    /\ UNCHANGED <<disjVars, sparseVars, normVars, explVars, termVars,
                   writerVars, commitVars, equivVars, faultVars>>

\* Bits::len of FixedBits
FixedLen ==
    /\ fixedCall' = [op |-> "len", on |-> "FixedBits", index |-> -1,
                     res |-> FixedBitsLen(fixed)]
    /\ UNCHANGED fixed
    /\ UNCHANGED <<disjVars, sparseVars, normVars, explVars, termVars,
                   writerVars, commitVars, equivVars, faultVars>>

\* x.count_ones() summed over the words
RECURSIVE FixedBitsCardinality(_)
FixedBitsCardinality(bits) ==
    IF bits = <<>> THEN 0
    ELSE Cardinality(Head(bits)) + FixedBitsCardinality(Tail(bits))

\* FixedBits::cardinality
FixedCardinality ==
    /\ fixedCall' = [op |-> "cardinality", on |-> "FixedBits", index |-> -1,
                     res |-> FixedBitsCardinality(fixed.bits)]
    /\ UNCHANGED fixed
    /\ UNCHANGED <<disjVars, sparseVars, normVars, explVars, termVars,
                   writerVars, commitVars, equivVars, faultVars>>

\* the implementations of Bits in the module
BitsImpls == {"MatchAllBits", "MatchNoBits", "LiveBits", "FixedBits", "SparseBits"}

\* the lengths the other implementations are built with
BitsLens == {0, 1, 64}

\* is_empty() of an implementation whose len() is len: the trait's default
\* method, overridden by MatchAllBits and MatchNoBits
BitsIsEmpty(impl, len) ==
    IF impl \in {"MatchAllBits", "MatchNoBits"} THEN TRUE ELSE len = 0

\* is_empty() on the FixedBits, or on another implementation built with len
IsEmpty(impl, len) ==
    /\ impl = "FixedBits" => len = fixed.len
    /\ fixedCall' = [op |-> "is_empty", on |-> impl, index |-> len,
                     res |-> IF BitsIsEmpty(impl, len) THEN "true" ELSE "false"]
    /\ UNCHANGED fixed
    /\ UNCHANGED <<disjVars, sparseVars, normVars, explVars, termVars,
                   writerVars, commitVars, equivVars, faultVars>>

FixedNext ==
    \/ \E idx \in FixedPositions : FixedGet(idx)
    \/ FixedLen
    \/ FixedCardinality
    \/ \E impl \in BitsImpls :
          \E len \in (IF impl = "FixedBits" THEN {fixed.len} ELSE BitsLens) :
              IsEmpty(impl, len)

(***************************************************************************)
(* NormValuesWriter and NumericIter (core/codec/norms/norm_values_writer.rs)*)
(***************************************************************************)
NormDocs == (0 .. (MaxNormDoc - 1)) \cup {InitialBits}
NormVals == 0 .. MaxNormVal

\* bits2words: the number of 64-bit words that hold num_bits bits
Bits2Words(num_bits) == IF num_bits = 0 THEN 0 ELSE ((num_bits - 1) \div 64) + 1

\* FixedBitSet::new
FixedBitSetNew(num_bits) == [num_bits |-> Bits2Words(num_bits) * 64, bits |-> {}]

\* FixedBitSet::ensure_capacity: afterwards bit num_bits can be set
EnsureCapacity(bs, num_bits) ==
    IF num_bits >= bs.num_bits
    THEN [bs EXCEPT !.num_bits = (Bits2Words(num_bits) + 1) * 64]
    ELSE bs

\* FixedBitSet::set
BitSetSet(bs, i) == [bs EXCEPT !.bits = @ \cup {i}]

\* FixedBitSet::get and FixedBitSet::len
BitSetGet(bs, i) == i \in bs.bits
BitSetLen(bs) == bs.num_bits

\* NormValuesWriter::new
NormValuesWriterNew ==
    [pending |-> <<>>, docs_with_field |-> FixedBitSetNew(InitialBits), last_doc |-> -1]

\* (variant: last_doc is left as it was)
AddValueKeepingLastDoc(w, doc_id, value) ==
    [pending |-> Append(w.pending, value),
     docs_with_field |-> BitSetSet(EnsureCapacity(w.docs_with_field, doc_id), doc_id),
     last_doc |-> w.last_doc]

\* (variant: the value is not appended to pending)
AddValueWithoutPending(w, doc_id, value) ==
    [pending |-> w.pending,
     docs_with_field |-> BitSetSet(EnsureCapacity(w.docs_with_field, doc_id), doc_id),
     last_doc |-> doc_id]

\* NormValuesWriter::add_value; pending.add appends the value
AddValueTo(w, doc_id, value) ==
    [pending |-> Append(w.pending, value),
     docs_with_field |-> BitSetSet(EnsureCapacity(w.docs_with_field, doc_id), doc_id),
     last_doc |-> doc_id]

\* NumericIter::new over pending.build().iterator()
NumericIterNew(max_doc) ==
    [state |-> "ready", upto |-> 0, max_doc |-> max_doc, values_upto |-> 0,
     out |-> <<>>, replayed |-> FALSE]

\* (variant: a doc without the field takes a pending value too)
NumericIterNextNoPresence(it, w) ==
    IF it.upto < it.max_doc
    THEN IF it.values_upto >= Len(w.pending)
         THEN [it EXCEPT !.state = "panic"]
         ELSE [it EXCEPT !.upto = @ + 1, !.values_upto = @ + 1,
                         !.out = Append(@, w.pending[it.values_upto + 1])]
    ELSE [it EXCEPT !.state = "done"]

\* NumericIter::next: the item is appended to out; None ends the pass;
\* values_iter.next().unwrap() panics when the values have run out
NumericIterNext(it, w) ==
    IF it.upto < it.max_doc
    THEN IF it.upto >= BitSetLen(w.docs_with_field)
            \/ ~BitSetGet(w.docs_with_field, it.upto)
         THEN [it EXCEPT !.upto = @ + 1, !.out = Append(@, MISSING)]
         ELSE IF it.values_upto >= Len(w.pending)
         THEN [it EXCEPT !.state = "panic"]
         ELSE [it EXCEPT !.upto = @ + 1, !.values_upto = @ + 1,
                         !.out = Append(@, w.pending[it.values_upto + 1])]
    ELSE [it EXCEPT !.state = "done"]

\* (variant: values_iter is not reset)
NumericIterResetUptoOnly(it) ==
    [it EXCEPT !.state = "ready", !.upto = 0, !.out = <<>>, !.replayed = TRUE]

\* ReusableIterator::reset of NumericIter; replayed records that the pass
\* under way follows a reset
NumericIterReset(it) ==
    [it EXCEPT !.state = "ready", !.upto = 0, !.values_upto = 0, !.out = <<>>,
               !.replayed = TRUE]

\* the items of a whole pass from it on
RECURSIVE RunToEnd(_, _)
RunToEnd(it, w) ==
    IF it.state = "ready" THEN RunToEnd(NumericIterNext(it, w), w) ELSE it

NormsInit ==
    /\ DisjIdle /\ SparseIdle /\ ExplIdle /\ TermIdle /\ WriterIdle /\ CommitIdle
    /\ norms = NormValuesWriterNew
    /\ added = {}
    /\ iter = NoIter

\* NormValuesWriter::add_value, doc ids ascending (debug_assert)
AddValue(doc_id, value) ==
    /\ iter.state = "none"
    /\ norms.last_doc < doc_id
    /\ norms' = AddValueTo(norms, doc_id, value)
    /\ added' = added \cup {<<doc_id, value>>}
    /\ UNCHANGED iter
    /\ UNCHANGED notNorms

\* NormValuesWriter::flush without a sort map: the consumer is handed a
\* NumericIter over max_doc docs, whatever max_doc the segment has
Flush(max_doc) ==
    /\ iter.state = "none"
    /\ iter' = NumericIterNew(max_doc)
    /\ UNCHANGED <<norms, added>>
    /\ UNCHANGED notNorms

\* the consumer takes the next item
ConsumerNext ==
    /\ iter.state = "ready"
    /\ iter' = NumericIterNext(iter, norms)
    /\ UNCHANGED <<norms, added>>
    /\ UNCHANGED notNorms

\* the consumer resets the iterator
ConsumerReset ==
    /\ iter.state \in {"ready", "done"}
    /\ iter' = NumericIterReset(iter)
    /\ UNCHANGED <<norms, added>>
    /\ UNCHANGED notNorms

NormsNext ==
    \/ \E doc_id \in NormDocs, value \in NormVals : AddValue(doc_id, value)
    \/ \E max_doc \in (1 .. MaxNormDoc) \cup {InitialBits + 1} : Flush(max_doc)
    \/ ConsumerNext
    \/ ConsumerReset

(***************************************************************************)
(* Explanation (core/search/explanation.rs).                               *)
(***************************************************************************)
ExplVals == 0 .. MaxExplVal

\* (variant: the value is kept whatever is_match is)
ExplanationNewKeepsValue(is_match, value, description, details) ==
    [is_match |-> is_match, value |-> value, description |-> description,
     details |-> details]

\* Explanation::new
ExplanationNew(is_match, value, description, details) ==
    [is_match |-> is_match,
     value |-> (IF ~is_match THEN 0 ELSE value),
     description |-> description,
     details |-> details]

\* depth of an explanation tree
RECURSIVE ExplDepth(_)
ExplDepth(e) ==
    IF e.details = <<>> THEN 1
    ELSE 1 + ExplDepth(e.details[1])

ExplInit ==
    /\ DisjIdle /\ SparseIdle /\ NormsIdle /\ TermIdle /\ WriterIdle /\ CommitIdle
    /\ expl = NoExplanation
    /\ explArgs = [called |-> FALSE, is_match |-> FALSE, value |-> 0,
                   description |-> "", details |-> <<>>]

\* Explanation::new; the details are explanations built before
NewExplanation(is_match, value, description, details) ==
    /\ expl' = ExplanationNew(is_match, value, description, details)
    /\ explArgs' = [called |-> TRUE, is_match |-> is_match, value |-> value,
                    description |-> description, details |-> details]
    /\ UNCHANGED notExpl

ExplNext ==
    \E is_match \in BOOLEAN, value \in ExplVals, description \in {"sum of:", "weight"} :
        \E details \in (IF explArgs.called /\ ExplDepth(expl) < MaxExplDepth
                         THEN {<<>>, <<expl>>, <<expl, expl>>} ELSE {<<>>}) :
            NewExplanation(is_match, value, description, details)

(***************************************************************************)
(* Term (core/index/term.rs).  A byte string is a sequence over 0 .. 255,  *)
(* a string a sequence of chars (Unicode scalar values).  Field names are  *)
(* ASCII here, so a field name's chars are also its UTF-8 bytes.           *)
(***************************************************************************)
\* 'b', 't'
FieldChars == {98, 116}
\* the bytes of the terms that are compared
OrderBytes == {65, 255}
\* the bytes of the terms whose text is taken: line feed, 'A', C3 A9 (e acute),
\* E2 82 AC (euro sign) and FF, which no UTF-8 text holds
TermBytes == {10, 65, 195, 169, 226, 130, 172, 255}

SeqsUpTo(S, n) == UNION {[1 .. k -> S] : k \in 0 .. n}

FieldNames == SeqsUpTo(FieldChars, MaxFieldLen)

\* Term::new
TermNew(field, bytes) == [field |-> field, bytes |-> bytes]

\* char::encode_utf8
Utf8EncodeChar(c) ==
    IF c < 128 THEN <<c>>
    ELSE IF c < 2048 THEN <<192 + (c \div 64), 128 + (c % 64)>>
    ELSE IF c < 65536
         THEN <<224 + (c \div 4096), 128 + ((c \div 64) % 64), 128 + (c % 64)>>
         ELSE <<240 + (c \div 262144), 128 + ((c \div 4096) % 64),
                128 + ((c \div 64) % 64), 128 + (c % 64)>>

\* str::bytes
RECURSIVE StrBytes(_)
StrBytes(text) ==
    IF text = <<>> THEN <<>>
    ELSE Utf8EncodeChar(Head(text)) \o StrBytes(Tail(text))

\* Term::from_str
TermFromStr(field, text) == [field |-> field, bytes |-> StrBytes(text)]

\* Clone for Term (derived)
TermClone(t) == [field |-> t.field, bytes |-> t.bytes]

\* Ord for [u8] and for str: the first differing element decides, then the
\* lengths
RECURSIVE SliceCmpFrom(_, _, _)
SliceCmpFrom(x, y, i) ==
    IF i > Len(x) \/ i > Len(y)
    THEN (IF Len(x) < Len(y) THEN "Less"
          ELSE IF Len(x) > Len(y) THEN "Greater" ELSE "Equal")
    ELSE IF x[i] < y[i] THEN "Less"
    ELSE IF x[i] > y[i] THEN "Greater"
    ELSE SliceCmpFrom(x, y, i + 1)

SliceCmp(x, y) == SliceCmpFrom(x, y, 1)

TermCmpBytesFirst(s, t) ==
    LET c == SliceCmp(s.bytes, t.bytes)
    IN  IF c # "Equal" THEN c ELSE SliceCmp(s.field, t.field)

\* Ord for Term (derived): the fields in declaration order, field then bytes
TermCmp(s, t) ==
    LET c == SliceCmp(s.field, t.field)
    IN  IF c # "Equal" THEN c ELSE SliceCmp(s.bytes, t.bytes)

\* PartialEq for Term (derived)
TermEq(s, t) == s.field = t.field /\ s.bytes = t.bytes

IsCont(b) == b >= 128 /\ b <= 191

\* String::from_utf8: [ok, chars]; rejects stray and missing continuation
\* bytes, overlong forms, surrogates and values past 10FFFF
RECURSIVE FromUtf8From(_, _, _)
FromUtf8From(bytes, i, acc) ==
    IF i > Len(bytes) THEN [ok |-> TRUE, chars |-> acc]
    ELSE LET b == bytes[i]
             n == Len(bytes)
             Err == [ok |-> FALSE, chars |-> <<>>]
         IN  IF b < 128 THEN FromUtf8From(bytes, i + 1, Append(acc, b))
             ELSE IF b >= 194 /\ b <= 223
             THEN IF i + 1 <= n /\ IsCont(bytes[i + 1])
                  THEN FromUtf8From(bytes, i + 2,
                           Append(acc, (b - 192) * 64 + (bytes[i + 1] - 128)))
                  ELSE Err
             ELSE IF b >= 224 /\ b <= 239
             THEN IF /\ i + 2 <= n
                     /\ bytes[i + 1] >= (IF b = 224 THEN 160 ELSE 128)
                     /\ bytes[i + 1] <= (IF b = 237 THEN 159 ELSE 191)
                     /\ IsCont(bytes[i + 2])
                  THEN FromUtf8From(bytes, i + 3,
                           Append(acc, (b - 224) * 4096 + (bytes[i + 1] - 128) * 64
                                       + (bytes[i + 2] - 128)))
                  ELSE Err
             ELSE IF b >= 240 /\ b <= 244
             THEN IF /\ i + 3 <= n
                     /\ bytes[i + 1] >= (IF b = 240 THEN 144 ELSE 128)
                     /\ bytes[i + 1] <= (IF b = 244 THEN 143 ELSE 191)
                     /\ IsCont(bytes[i + 2])
                     /\ IsCont(bytes[i + 3])
                  THEN FromUtf8From(bytes, i + 4,
                           Append(acc, (b - 240) * 262144 + (bytes[i + 1] - 128) * 4096
                                       + (bytes[i + 2] - 128) * 64 + (bytes[i + 3] - 128)))
                  ELSE Err
             ELSE Err

FromUtf8(bytes) == FromUtf8From(bytes, 1, <<>>)

\* one hex digit, upper case: '0' .. '9', 'A' .. 'F'
UpperHexDigit(n) == IF n < 10 THEN 48 + n ELSE 55 + n

HexUnpadded(b) ==
    IF b < 16 THEN <<UpperHexDigit(b)>>
    ELSE <<UpperHexDigit(b \div 16), UpperHexDigit(b % 16)>>

\* {:02X} of one byte
Hex02X(b) == <<UpperHexDigit(b \div 16), UpperHexDigit(b % 16)>>

\* the elements of a Debug list, separated by ", "
RECURSIVE DebugEntries(_, _)
DebugEntries(bytes, i) ==
    IF i > Len(bytes) THEN <<>>
    ELSE (IF i > 1 THEN <<44, 32>> ELSE <<>>) \o Hex02X(bytes[i])
         \o DebugEntries(bytes, i + 1)

\* format!("{:02X?}", bytes)
DebugUpperHex(bytes) == <<91>> \o DebugEntries(bytes, 1) \o <<93>>

RECURSIVE UnpaddedEntries(_, _)
UnpaddedEntries(bytes, i) ==
    IF i > Len(bytes) THEN <<>>
    ELSE (IF i > 1 THEN <<44, 32>> ELSE <<>>) \o HexUnpadded(bytes[i])
         \o UnpaddedEntries(bytes, i + 1)

TermTextUnpadded(t) ==
    LET r == FromUtf8(t.bytes)
    IN  IF r.ok THEN r.chars ELSE <<91>> \o UnpaddedEntries(t.bytes, 1) \o <<93>>

\* Term::text
TermText(t) ==
    LET r == FromUtf8(t.bytes)
    IN  IF r.ok THEN r.chars ELSE DebugUpperHex(t.bytes)

\* Term::to_string: format!("{}:{}", field, text())
TermToString(t) == t.field \o <<58>> \o TermText(t)

\* ---- comparing two terms ------------------------------------------------
OrderTerms == {TermNew(f, b) : f \in FieldNames, b \in SeqsUpTo(OrderBytes, MaxOrderLen)}

TermOrderInit ==
    /\ DisjIdle /\ SparseIdle /\ NormsIdle /\ ExplIdle /\ WriterIdle /\ CommitIdle
    /\ \E s \in OrderTerms, t \in OrderTerms :
          terms = [a |-> s, b |-> t, src |-> [ctor |-> "new", text |-> <<>>]]
    /\ termCall = NoTermCall

\* a.cmp(&b) and a == b
TermCompare ==
    /\ termCall' = [op |-> "cmp", ord |-> TermCmp(terms.a, terms.b),
                    eq |-> TermEq(terms.a, terms.b), out |-> <<>>]
    /\ UNCHANGED <<terms, notTerm>>

\* let b = a.clone()
TermCloneA ==
    /\ terms' = [terms EXCEPT !.b = TermClone(terms.a), !.src.ctor = "clone"]
    /\ termCall' = [op |-> "clone", ord |-> "Equal", eq |-> TRUE, out |-> <<>>]
    /\ UNCHANGED notTerm

TermOrderNext ==
    \/ TermCompare
    \/ TermCloneA

\* ---- the text of a term -------------------------------------------------
\* the strings passed to Term::from_str
TermStrings == SeqsUpTo({10, 65, 233, 8364}, MaxStrLen)

TermTextInit ==
    /\ DisjIdle /\ SparseIdle /\ NormsIdle /\ ExplIdle /\ WriterIdle /\ CommitIdle
    /\ \E f \in FieldNames :
          \/ \E b \in SeqsUpTo(TermBytes, MaxTermLen) :
                terms = [a |-> TermNew(f, b), b |-> NoTerm,
                         src |-> [ctor |-> "new", text |-> <<>>]]
          \/ \E s \in TermStrings :
                terms = [a |-> TermFromStr(f, s), b |-> NoTerm,
                         src |-> [ctor |-> "from_str", text |-> s]]
    /\ termCall = NoTermCall

\* a.text()
GetText ==
    /\ termCall' = [op |-> "text", ord |-> "Equal", eq |-> TRUE,
                    out |-> TermText(terms.a)]
    /\ UNCHANGED <<terms, notTerm>>

\* a.to_string()
GetToString ==
    /\ termCall' = [op |-> "to_string", ord |-> "Equal", eq |-> TRUE,
                    out |-> TermToString(terms.a)]
    /\ UNCHANGED <<terms, notTerm>>

TermTextNext ==
    \/ GetText
    \/ GetToString

(***************************************************************************)
(* IndexWriter: documents, deletes, commits and write.lock.  A document is *)
(* [key, val]: the term it is deleted and updated by, and its stored       *)
(* value; the n-th document added carries the value n.  A segment is       *)
(* [name, docs, max_doc, live, del_count].                                 *)
(***************************************************************************)
\* the terms documents are deleted and updated by
Keys == {1, 2}

\* Directory::obtain_lock("write.lock") by writer w: [ok, lock]
ObtainLockAlways(l, w) == [ok |-> TRUE, lock |-> w]

ObtainLock(l, w) ==
    IF l = 0 THEN [ok |-> TRUE, lock |-> w] ELSE [ok |-> FALSE, lock |-> l]

\* the lock after writer w released its hold
ReleaseLock(l, w) == IF l = w THEN 0 ELSE l

EnsureOpenOrFailed(state) ==
    IF state \in {"Open", "Failed"} THEN "ok" ELSE "AlreadyClosed"

\* the check every mutating call starts with
EnsureOpen(state) == IF state = "Open" THEN "ok" ELSE "AlreadyClosed"

NextDocIdFromOne(buffer) == Len(buffer) + 1

\* add_document: the next doc id is the current doc count
NextDocId(buffer) == Len(buffer)

\* the doc ids below upto whose document holds the term key
Matching(ds, key, upto) ==
    {d \in 0 .. (Len(ds) - 1) : d < upto /\ ds[d + 1].key = key}

DeletedInBufferWhole(buffer, deletes) ==
    UNION {Matching(buffer, deletes[j].key, Len(buffer)) : j \in 1 .. Len(deletes)}

\* the buffered docs the deletion queue deletes: a delete reaches the docs
\* buffered before it
DeletedInBuffer(buffer, deletes) ==
    UNION {Matching(buffer, deletes[j].key, deletes[j].upto) : j \in 1 .. Len(deletes)}

\* (variant: the queued deletes reach the buffer only)
DeletedInSegmentNone(ds, deletes) == {}

\* the docs of an earlier segment the deletion queue deletes
DeletedInSegment(ds, deletes) ==
    UNION {Matching(ds, deletes[j].key, Len(ds)) : j \in 1 .. Len(deletes)}

\* flush: the buffer becomes a segment, its doc ids the buffer positions
FlushSegment(name, buffer, deletes) ==
    LET gone == DeletedInBuffer(buffer, deletes)
    IN  [name |-> name, docs |-> buffer, max_doc |-> Len(buffer),
         live |-> (0 .. (Len(buffer) - 1)) \ gone,
         del_count |-> Cardinality(gone)]

ApplyDeletesUncounted(seg, deletes) ==
    LET gone == DeletedInSegment(seg.docs, deletes)
    IN  [seg EXCEPT !.live = @ \ gone]

\* commit step 2: the buffered deletes marked in a segment's live docs
ApplyDeletes(seg, deletes) ==
    LET gone == DeletedInSegment(seg.docs, deletes)
    IN  [seg EXCEPT !.live = @ \ gone,
                    !.del_count = @ + Cardinality(seg.live \cap gone)]

\* commit: the deletes applied, the buffer flushed, segments_<gen+1> written
CommitIndex(ix, buffer, deletes) ==
    LET old == [i \in 1 .. Len(ix.segments) |-> ApplyDeletes(ix.segments[i], deletes)]
        flushed == IF buffer = <<>> THEN <<>>
                   ELSE <<FlushSegment(ix.counter, buffer, deletes)>>
    IN  [gen |-> ix.gen + 1, counter |-> ix.counter + Len(flushed),
         segments |-> old \o flushed]

\* ---- a reader opened on a commit ---------------------------------------
RECURSIVE DocBase(_, _)
\* the first doc id of the reader that falls into segment i
DocBase(ix, i) ==
    IF i = 1 THEN 0 ELSE DocBase(ix, i - 1) + ix.segments[i - 1].max_doc

\* IndexReader::max_doc, num_docs, and the cardinality of the live docs
ReaderMaxDoc(ix) == DocBase(ix, Len(ix.segments) + 1)

RECURSIVE ReaderNumDocsUpTo(_, _)
ReaderNumDocsUpTo(ix, i) ==
    IF i = 0 THEN 0
    ELSE ReaderNumDocsUpTo(ix, i - 1)
         + (ix.segments[i].max_doc - ix.segments[i].del_count)

ReaderNumDocs(ix) == ReaderNumDocsUpTo(ix, Len(ix.segments))

RECURSIVE LiveCardinalityUpTo(_, _)
LiveCardinalityUpTo(ix, i) ==
    IF i = 0 THEN 0
    ELSE LiveCardinalityUpTo(ix, i - 1) + Cardinality(ix.segments[i].live)

LiveCardinality(ix) == LiveCardinalityUpTo(ix, Len(ix.segments))

\* what the reader exposes: <<doc id, key, stored value>> of every live doc
ReaderTriples(ix) ==
    UNION {{<<DocBase(ix, i) + d, ix.segments[i].docs[d + 1].key,
              ix.segments[i].docs[d + 1].val>> : d \in ix.segments[i].live}
             : i \in 1 .. Len(ix.segments)}

\* ---- the calls -----------------------------------------------------------
WriterInit ==
    /\ DisjIdle /\ SparseIdle /\ NormsIdle /\ ExplIdle /\ TermIdle /\ CommitIdle
    /\ lock = 0
    /\ wr = [w \in Writers |-> NoWriter]
    /\ index = EmptyIndex
    /\ wcall = NoWriterCall
    /\ seen = NothingSeen

\* the documents with term key that the callers have added and not deleted
PendingWith(key) == {u \in seen.pending : seen.adds[u].key = key}

\* a mutating call on a writer that is not Open
Rejected(op, w) ==
    /\ wcall' = [op |-> op, w |-> w, res |-> "AlreadyClosed", doc_id |-> -1]
    /\ UNCHANGED <<lock, wr, index, seen>>

\* IndexWriter::new on the directory; the writers are numbered in the order
\* in which they come to be
OpenWriter(w) ==
    /\ wr[w].state = "None"
    /\ \A v \in 1 .. (w - 1) : wr[v].state # "None"
    /\ \E r \in {ObtainLock(lock, w)} :
          IF r.ok
          THEN /\ lock' = r.lock
               /\ wr' = [wr EXCEPT ![w] = [state |-> "Open", buffer |-> <<>>,
                                           deletes |-> <<>>]]
               /\ wcall' = [op |-> "open", w |-> w, res |-> "ok", doc_id |-> -1]
          ELSE /\ wcall' = [op |-> "open", w |-> w,
                            res |-> "IllegalState(lock held)", doc_id |-> -1]
               /\ UNCHANGED <<lock, wr>>
    /\ UNCHANGED <<index, seen>>
    /\ UNCHANGED notWriter

\* add_document of a document with term key
AddDocument(w, key) ==
    /\ wr[w].state \in {"Open", "Failed"}
    /\ IF EnsureOpen(wr[w].state) # "ok" THEN Rejected("add_document", w)
       ELSE /\ Len(seen.adds) < MaxAdds
            /\ \E id \in {NextDocId(wr[w].buffer)}, u \in {Len(seen.adds) + 1} :
                  /\ wr' = [wr EXCEPT ![w].buffer =
                                         Append(@, [key |-> key, val |-> u])]
                  /\ wcall' = [op |-> "add_document", w |-> w, res |-> "ok",
                               doc_id |-> id]
                  /\ seen' = [seen EXCEPT
                                !.adds = Append(@, [key |-> key, doc_id |-> id]),
                                !.buffered = @ \cup {u},
                                !.pending = @ \cup {u}]
            /\ UNCHANGED <<lock, index>>
    /\ UNCHANGED notWriter

\* add_document failing on its document: the document is rolled back, the
\* writer stays usable
AddDocumentFails(w) ==
    /\ wr[w].state = "Open"
    /\ wcall' = [op |-> "add_document", w |-> w, res |-> "IOError", doc_id |-> -1]
    /\ UNCHANGED <<lock, wr, index, seen>>
    /\ UNCHANGED notWriter

\* delete_documents by the term key
DeleteDocuments(w, key) ==
    /\ wr[w].state \in {"Open", "Failed"}
    /\ IF EnsureOpen(wr[w].state) # "ok" THEN Rejected("delete_documents", w)
       ELSE /\ seen.deletes < MaxDeletes
            /\ wr' = [wr EXCEPT ![w].deletes =
                        Append(@, [key |-> key, upto |-> Len(wr[w].buffer)])]
            /\ wcall' = [op |-> "delete_documents", w |-> w, res |-> "ok",
                         doc_id |-> -1]
            /\ seen' = [seen EXCEPT !.pending = @ \ PendingWith(key),
                                    !.deletes = @ + 1]
            /\ UNCHANGED <<lock, index>>
    /\ UNCHANGED notWriter

\* update_document: delete by the term key and add, in one step
UpdateDocument(w, key) ==
    /\ wr[w].state \in {"Open", "Failed"}
    /\ IF EnsureOpen(wr[w].state) # "ok" THEN Rejected("update_document", w)
       ELSE /\ Len(seen.adds) < MaxAdds
            /\ \E id \in {NextDocId(wr[w].buffer)}, u \in {Len(seen.adds) + 1} :
                  /\ wr' = [wr EXCEPT
                              ![w].deletes =
                                  Append(@, [key |-> key, upto |-> Len(wr[w].buffer)]),
                              ![w].buffer = Append(@, [key |-> key, val |-> u])]
                  /\ wcall' = [op |-> "update_document", w |-> w, res |-> "ok",
                               doc_id |-> id]
                  /\ seen' = [seen EXCEPT
                                !.adds = Append(@, [key |-> key, doc_id |-> id]),
                                !.buffered = @ \cup {u},
                                !.pending = (@ \ PendingWith(key)) \cup {u},
                                !.updates = IF PendingWith(key) = {} THEN @
                                            ELSE @ \cup {u}]
            /\ UNCHANGED <<lock, index>>
    /\ UNCHANGED notWriter

\* commit
Commit(w) ==
    /\ wr[w].state \in {"Open", "Failed"}
    /\ IF EnsureOpen(wr[w].state) # "ok" THEN Rejected("commit", w)
       ELSE /\ index.gen < MaxCommits
            /\ index' = CommitIndex(index, wr[w].buffer, wr[w].deletes)
            /\ wr' = [wr EXCEPT ![w].buffer = <<>>, ![w].deletes = <<>>]
            /\ wcall' = [op |-> "commit", w |-> w, res |-> "ok", doc_id |-> -1]
            /\ seen' = [seen EXCEPT !.committed = seen.pending,
                                    !.flushed = @ \cup seen.buffered,
                                    !.buffered = {}]
            /\ UNCHANGED lock
    /\ UNCHANGED notWriter

\* commit hitting a tragic error while it flushes or writes the commit: the
\* writer is Failed, what it buffered is gone, the last commit stands
CommitFails(w) ==
    /\ wr[w].state = "Open"
    /\ wr' = [wr EXCEPT ![w] = [state |-> "Failed", buffer |-> <<>>,
                                deletes |-> <<>>]]
    /\ wcall' = [op |-> "commit", w |-> w, res |-> "IOError", doc_id |-> -1]
    /\ seen' = [seen EXCEPT !.pending = seen.committed, !.buffered = {}]
    /\ UNCHANGED <<lock, index>>
    /\ UNCHANGED notWriter

\* close: write.lock is released, what was buffered and not committed is
\* dropped
CloseWriter(w) ==
    /\ wr[w].state \in {"Open", "Failed"}
    /\ lock' = ReleaseLock(lock, w)
    /\ wr' = [wr EXCEPT ![w] = [state |-> "Closed", buffer |-> <<>>,
                                deletes |-> <<>>]]
    /\ wcall' = [op |-> "close", w |-> w, res |-> "ok", doc_id |-> -1]
    /\ seen' = [seen EXCEPT !.pending = seen.committed, !.buffered = {}]
    /\ UNCHANGED index
    /\ UNCHANGED notWriter

WriterNext ==
    \E w \in Writers :
        \/ OpenWriter(w)
        \/ \E key \in Keys : AddDocument(w, key)
        \/ AddDocumentFails(w)
        \/ \E key \in Keys : DeleteDocuments(w, key)
        \/ \E key \in Keys : UpdateDocument(w, key)
        \/ Commit(w)
        \/ CommitFails(w)
        \/ CloseWriter(w)

(***************************************************************************)
(* The commit protocol, the readers' pins and the deletion of segment      *)
(* files.  A segment is its name; its files are in one of three places of  *)
(* the directory: written under a temporary name (temp), under their final *)
(* name but not fsynced (unsynced), or fsynced (synced).  sis holds the    *)
(* segments_N files: [gen, segs, counter, complete], complete once the     *)
(* file is wholly written and fsynced.  A crash stops the process and may  *)
(* lose every file that is not fsynced.                                    *)
(***************************************************************************)
AllFiles(d) == d.temp \cup d.unsynced \cup d.synced

ReadableCommits(d) == {c \in d.sis : c.complete}

HighestReadable(d) ==
    CHOOSE c \in ReadableCommits(d) :
        \A o \in ReadableCommits(d) : o.gen <= c.gen

\* the segments the writer's SegmentInfos names, in memory and as last
\* committed
LatestInfos(d, infos) == infos \cup HighestReadable(d).segs

SweepableIgnoringRefs(n, refcount, latest) == n \notin latest

Sweepable(n, refcount, latest) == refcount[n] = 0 /\ n \notin latest

SweptFiles(d, infos, refcount) ==
    {n \in AllFiles(d) : Sweepable(n, refcount, LatestInfos(d, infos))}

Sweep(d, infos, refcount) ==
    LET gone == SweptFiles(d, infos, refcount)
    IN  [temp |-> d.temp \ gone,
         unsynced |-> d.unsynced \ gone,
         synced |-> d.synced \ gone,
         sis |-> {c \in d.sis : c.gen >= HighestReadable(d).gen}]

RenameOnly(d, infos) ==
    [d EXCEPT !.temp = d.temp \ infos,
              !.unsynced = d.unsynced \cup (d.temp \cap infos)]

\* step 3: rename the temporary files, fsync each file and the directory
SyncFiles(d, infos) ==
    [d EXCEPT !.temp = d.temp \ infos,
              !.unsynced = d.unsynced \ infos,
              !.synced = d.synced \cup ((d.temp \cup d.unsynced) \cap infos)]

WriteSegmentsN(d, infos, counter) ==
    [d EXCEPT !.sis = d.sis \cup
        {[gen |-> HighestReadable(d).gen + 1, segs |-> infos,
          counter |-> counter, complete |-> FALSE]}]

FsyncSegmentsN(d) ==
    [d EXCEPT !.sis = {[c EXCEPT !.complete = TRUE] : c \in d.sis}]

CommitInit ==
    /\ disk = NewDirectory
    /\ mem = NewProcess
    /\ ccall = NoCommitCall
    /\ DisjIdle /\ SparseIdle /\ NormsIdle /\ ExplIdle /\ TermIdle /\ WriterIdle

\* step 1: flush the pending documents, if any, to a new segment
FlushPending(pending) ==
    /\ ~mem.down
    /\ mem.cstep = "idle"
    /\ HighestReadable(disk).gen < MaxGen
    /\ pending => mem.counter < MaxSegments
    /\ disk' = IF pending
               THEN [disk EXCEPT !.temp = @ \cup {mem.counter + 1}]
               ELSE disk
    /\ mem' = IF pending
              THEN [mem EXCEPT !.infos = @ \cup {mem.counter + 1},
                               !.counter = @ + 1,
                               !.cstep = "flushed"]
              ELSE [mem EXCEPT !.cstep = "flushed"]
    /\ ccall' = [op |-> "flush", arg |-> {}]
    /\ UNCHANGED notCommit

\* step 2: apply the buffered deletes to the live docs of each segment
ApplyBufferedDeletes ==
    /\ ~mem.down
    /\ mem.cstep = "flushed"
    /\ mem' = [mem EXCEPT !.cstep = "applied"]
    /\ ccall' = [op |-> "apply_deletes", arg |-> {}]
    /\ UNCHANGED <<disk, notCommit>>

RenameAndFsync ==
    /\ ~mem.down
    /\ mem.cstep = "applied"
    /\ disk' = SyncFiles(disk, mem.infos)
    /\ mem' = [mem EXCEPT !.cstep = "synced"]
    /\ ccall' = [op |-> "fsync_files", arg |-> {}]
    /\ UNCHANGED notCommit

\* step 4, first half: segments_<gen+1> is being written
WriteSegmentsFile ==
    /\ ~mem.down
    /\ mem.cstep = "synced"
    /\ disk' = WriteSegmentsN(disk, mem.infos, mem.counter)
    /\ mem' = [mem EXCEPT !.cstep = "writing"]
    /\ ccall' = [op |-> "write_segments", arg |-> {}]
    /\ UNCHANGED notCommit

\* step 4, second half: segments_<gen+1> is whole and fsynced; the commit
\* is done and the writer sweeps
FsyncSegmentsFile ==
    /\ ~mem.down
    /\ mem.cstep = "writing"
    /\ \E d \in {FsyncSegmentsN(disk)} :
        /\ disk' = Sweep(d, mem.infos, mem.refcount)
        /\ mem' = [mem EXCEPT !.cstep = "idle",
                              !.doneGen = HighestReadable(d).gen]
        /\ ccall' = [op |-> "fsync_segments",
                     arg |-> SweptFiles(d, mem.infos, mem.refcount)]
    /\ UNCHANGED notCommit

\* a merge replaces the segments of from by one new segment
Merge(from) ==
    /\ ~mem.down
    /\ mem.cstep = "idle"
    /\ from # {}
    /\ from \subseteq mem.infos
    /\ mem.counter < MaxSegments
    /\ disk' = [disk EXCEPT !.unsynced = @ \cup {mem.counter + 1}]
    /\ mem' = [mem EXCEPT !.infos = (@ \ from) \cup {mem.counter + 1},
                          !.counter = @ + 1]
    /\ ccall' = [op |-> "merge", arg |-> from]
    /\ UNCHANGED notCommit

\* a reader opens the latest commit and pins its segments
OpenReader(r) ==
    /\ ~mem.down
    /\ ~mem.opened[r].open
    /\ \E segs \in {HighestReadable(disk).segs} :
        /\ mem' = [mem EXCEPT
                     !.opened[r] = [open |-> TRUE, segs |-> segs],
                     !.refcount = [n \in SegmentNames |->
                                     IF n \in segs THEN @[n] + 1 ELSE @[n]]]
        /\ ccall' = [op |-> "open_reader", arg |-> segs]
    /\ UNCHANGED <<disk, notCommit>>

\* a reader closes, gives its pins back, and the writer sweeps
CloseReader(r) ==
    /\ ~mem.down
    /\ mem.opened[r].open
    /\ \E rc \in {[n \in SegmentNames |->
                     IF n \in mem.opened[r].segs
                     THEN mem.refcount[n] - 1 ELSE mem.refcount[n]]} :
        /\ disk' = Sweep(disk, mem.infos, rc)
        /\ mem' = [mem EXCEPT
                     !.opened[r] = [open |-> FALSE, segs |-> {}],
                     !.refcount = rc]
        /\ ccall' = [op |-> "close_reader",
                     arg |-> SweptFiles(disk, mem.infos, rc)]
    /\ UNCHANGED notCommit

\* the machine stops: the process is gone and of the files that were not
\* fsynced any may be lost
Crash ==
    /\ ~mem.down
    /\ mem.crashes < MaxCrashes
    /\ \E keep \in SUBSET (disk.temp \cup disk.unsynced) :
        disk' = [disk EXCEPT !.temp = @ \cap keep, !.unsynced = @ \cap keep]
    /\ mem' = [NewProcess EXCEPT !.down = TRUE,
                                 !.crashes = mem.crashes + 1,
                                 !.doneGen = mem.doneGen]
    /\ ccall' = [op |-> "crash", arg |-> {}]
    /\ UNCHANGED notCommit

\* a new writer opens the directory at its highest readable commit and
\* removes what that commit does not name
Restart ==
    /\ mem.down
    /\ \E top \in {HighestReadable(disk)} :
        /\ disk' = [Sweep(disk, top.segs, mem.refcount)
                       EXCEPT !.sis = {top}]
        /\ mem' = [mem EXCEPT !.down = FALSE,
                              !.infos = top.segs,
                              !.counter = top.counter]
        /\ ccall' = [op |-> "restart",
                     arg |-> SweptFiles(disk, top.segs, mem.refcount)]
    /\ UNCHANGED notCommit

CommitNext ==
    \/ \E pending \in BOOLEAN : FlushPending(pending)
    \/ ApplyBufferedDeletes
    \/ RenameAndFsync
    \/ WriteSegmentsFile
    \/ FsyncSegmentsFile
    \/ \E from \in SUBSET SegmentNames : Merge(from)
    \/ \E r \in Readers : OpenReader(r)
    \/ \E r \in Readers : CloseReader(r)
    \/ Crash
    \/ Restart

(***************************************************************************)
(* The disjunction scorer as a state machine.                              *)
(***************************************************************************)
DocId == SubDocId(rep, docs, curr_doc)

Positioned == DocId >= 0 /\ DocId < NO_MORE_DOCS

\* the children of a short list all have posting lists of their own; the
\* children of a list of SimpleQueueLimit take turns on two posting lists
DistinctLists(n) == IF n < SimpleQueueLimit THEN n ELSE Min2(MaxSmall, 2)

DisjInit ==
    /\ kind \in {"sum", "max"}
    /\ \E n \in ChildCounts :
         \E base \in [1 .. DistinctLists(n) -> SUBSET DocUniverse] :
            /\ postings = [i \in 1 .. n |-> base[((i - 1) % DistinctLists(n)) + 1]]
            /\ scores = ChildScores(n)
            /\ docs = [i \in 1 .. n |-> -1]
    /\ IF kind = "sum"
       THEN /\ min_should_match \in 1 .. MaxMsm
            /\ tie_breaker_multiplier = 0
            /\ rep = SumScorerRep(Len(postings), min_should_match)
       ELSE /\ min_should_match = DEFAULT_MIN_SHOULD_MATCH
            /\ tie_breaker_multiplier \in {0, 1}
            /\ rep = MaxScorerRep(Len(postings))
    /\ needs_scores \in BOOLEAN
    /\ cost = SumCosts(ChildCosts(postings))
    /\ lenient \in (IF rep = "DPQ" THEN {"stay", "step"} ELSE {"stay"})
    /\ curr_doc = (IF rep = "SQ" THEN SimpleQueueNew(docs) ELSE -1)
    /\ hung = FALSE
    /\ call = NoCall
    /\ emitted = NoneEmitted
    /\ lastScore = NoScore
    /\ twin = NoTwin
    /\ fault = NoFault
    /\ SparseIdle /\ NormsIdle /\ ExplIdle /\ TermIdle /\ WriterIdle /\ CommitIdle

\* DocIterator::next
DoNext ==
    /\ ~hung
    /\ IF rep = "SQ"
       THEN \E r \in {SQNext(postings, docs, curr_doc, min_should_match)} :
                /\ docs' = r.docs
                /\ curr_doc' = r.curr_doc
                /\ hung' = FALSE
                /\ call' = [op |-> "next", target |-> -1, prev |-> DocId,
                            ret |-> r.curr_doc]
       ELSE IF DPQNextDiverges(docs)
            THEN /\ hung' = TRUE
                 /\ call' = [op |-> "next", target |-> -1, prev |-> DocId,
                             ret |-> -1]
                 /\ UNCHANGED <<docs, curr_doc>>
            ELSE \E ds2 \in {DPQNext(postings, docs, MinDoc(docs))} :
                     /\ docs' = ds2
                     /\ hung' = FALSE
                     /\ call' = [op |-> "next", target |-> -1, prev |-> DocId,
                                 ret |-> MinDoc(ds2)]
                     /\ UNCHANGED curr_doc
    /\ emitted' = (IF emitted.only_next /\ ~hung' /\ call'.ret # NO_MORE_DOCS
                   THEN [emitted EXCEPT !.docs = @ \cup {call'.ret}] ELSE emitted)
    /\ lastScore' = NoScore
    /\ UNCHANGED <<kind, min_should_match, needs_scores, tie_breaker_multiplier,
                   postings, scores, lenient, rep, cost>>
    /\ UNCHANGED notDisj

\* DocIterator::advance
DoAdvance(target) ==
    /\ ~hung
    /\ IF rep = "SQ"
       THEN \E r \in {SQAdvance(postings, docs, target, lenient)} :
                /\ docs' = r.docs
                /\ curr_doc' = r.curr_doc
                /\ call' = [op |-> "advance", target |-> target, prev |-> DocId,
                            ret |-> r.curr_doc]
       ELSE \E ds2 \in {DPQAdvance(postings, docs, target, lenient)} :
                /\ docs' = ds2
                /\ call' = [op |-> "advance", target |-> target, prev |-> DocId,
                            ret |-> MinDoc(ds2)]
                /\ UNCHANGED curr_doc
    /\ emitted' = [only_next |-> FALSE, docs |-> {}]
    /\ lastScore' = NoScore
    /\ UNCHANGED <<kind, min_should_match, needs_scores, tie_breaker_multiplier,
                   postings, scores, lenient, rep, cost, hung>>
    /\ UNCHANGED notDisj

\* Scorer::score of DisjunctionSumScorer and DisjunctionMaxScorer, called
\* while the scorer is positioned on a doc
DoScore ==
    /\ ~hung
    /\ Positioned
    /\ lastScore' =
         (IF ~needs_scores THEN [value |-> 0, scored |-> {}, valid |-> TRUE]
          ELSE IF kind = "sum" THEN ScoreSum(rep, scores, docs, curr_doc)
          ELSE ScoreMax(rep, scores, docs, curr_doc, tie_breaker_multiplier))
    /\ UNCHANGED <<kind, min_should_match, needs_scores, tie_breaker_multiplier,
                   postings, scores, lenient, rep, cost, docs, curr_doc, hung, call,
                   emitted>>
    /\ UNCHANGED notDisj

DisjNext ==
    \/ DoNext
    \/ \E target \in Targets : DoAdvance(target)
    \/ DoScore

\* the driver of IndexSearcher::search: next() until NO_MORE_DOCS, scoring
\* the docs it visits
EnumNext ==
    \/ DoNext
    \/ DoScore


(***************************************************************************)
(* The two queues side by side: the same children are put under a          *)
(* SimpleQueue (docs, curr_doc) and under a DisiPriorityQueue (twin), and   *)
(* both receive the same calls.                                            *)
(***************************************************************************)
EquivInit ==
    /\ kind \in {"sum", "max"}
    /\ \E n \in 1 .. MaxSmall :
         /\ postings \in [1 .. n -> SUBSET DocUniverse]
         /\ scores = ChildScores(n)
         /\ docs = [i \in 1 .. n |-> -1]
    /\ min_should_match = DEFAULT_MIN_SHOULD_MATCH
    /\ tie_breaker_multiplier \in (IF kind = "max" THEN {0, 1} ELSE {0})
    /\ rep = "SQ"
    /\ needs_scores = TRUE
    /\ cost = SumCosts(ChildCosts(postings))
    /\ lenient \in {"stay", "step"}
    /\ curr_doc = SimpleQueueNew(docs)
    /\ hung = FALSE
    /\ call = NoCall
    /\ emitted = NoneEmitted
    /\ lastScore = NoScore
    /\ twin = [NoTwin EXCEPT !.docs = docs]
    /\ fault = NoFault
    /\ SparseIdle /\ NormsIdle /\ ExplIdle /\ TermIdle /\ WriterIdle /\ CommitIdle

EquivFrame ==
    /\ UNCHANGED <<kind, min_should_match, needs_scores, tie_breaker_multiplier,
                   postings, scores, lenient, rep, cost, hung, emitted>>
    /\ UNCHANGED <<sparseVars, normVars, explVars, termVars, writerVars,
                   commitVars, fixedVars, faultVars>>

\* next() on both
BothNext ==
    /\ ~twin.hung
    /\ \E r \in {SQNext(postings, docs, curr_doc, min_should_match)} :
          /\ docs' = r.docs
          /\ curr_doc' = r.curr_doc
          /\ call' = [op |-> "next", target |-> -1, prev |-> curr_doc,
                      ret |-> r.curr_doc]
    /\ IF DPQNextDiverges(twin.docs)
       THEN twin' = [twin EXCEPT !.hung = TRUE, !.score = NoScore]
       ELSE \E ds2 \in {DPQNext(postings, twin.docs, MinDoc(twin.docs))} :
              twin' = [docs |-> ds2, hung |-> FALSE, ret |-> MinDoc(ds2),
                       score |-> NoScore]
    /\ lastScore' = NoScore
    /\ EquivFrame

\* advance(target) on both
BothAdvance(target) ==
    /\ ~twin.hung
    /\ \E r \in {SQAdvance(postings, docs, target, lenient)} :
          /\ docs' = r.docs
          /\ curr_doc' = r.curr_doc
          /\ call' = [op |-> "advance", target |-> target, prev |-> curr_doc,
                      ret |-> r.curr_doc]
    /\ \E ds2 \in {DPQAdvance(postings, twin.docs, target, lenient)} :
          twin' = [docs |-> ds2, hung |-> FALSE, ret |-> MinDoc(ds2),
                   score |-> NoScore]
    /\ lastScore' = NoScore
    /\ EquivFrame

\* score() on both, while both stand on a doc
BothScore ==
    /\ ~twin.hung
    /\ curr_doc >= 0 /\ curr_doc < NO_MORE_DOCS
    /\ MinDoc(twin.docs) >= 0 /\ MinDoc(twin.docs) < NO_MORE_DOCS
    /\ lastScore' =
         (IF kind = "sum" THEN ScoreSum("SQ", scores, docs, curr_doc)
          ELSE ScoreMax("SQ", scores, docs, curr_doc, tie_breaker_multiplier))
    /\ twin' = [twin EXCEPT !.score =
         IF kind = "sum" THEN ScoreSum("DPQ", scores, twin.docs, curr_doc)
         ELSE ScoreMax("DPQ", scores, twin.docs, curr_doc, tie_breaker_multiplier)]
    /\ UNCHANGED <<docs, curr_doc, call>>
    /\ EquivFrame

EquivNext ==
    \/ BothNext
    \/ \E target \in Targets : BothAdvance(target)
    \/ BothScore

(***************************************************************************)
(* Children that fail.  Child fault.child returns an error from every      *)
(* approximate_next and approximate_advance made while it stands on doc     *)
(* fault.at, and stays where it is; fault.err tells whether the last call   *)
(* on the SubScorers returned an error.  The children are visited in the    *)
(* order of the code, so those before the failing one have moved.           *)
(***************************************************************************)
Fails(f, i, d) == f.child = i /\ f.at = d

\* the for loop of approximate_next's SQ arm from child i on: [docs, err]
RECURSIVE SQNextPassFrom(_, _, _, _, _)
SQNextPassFrom(ps, ds, cur, f, i) ==
    IF i > Len(ds) THEN [docs |-> ds, err |-> FALSE]
    ELSE IF ds[i] # cur THEN SQNextPassFrom(ps, ds, cur, f, i + 1)
    ELSE IF Fails(f, i, ds[i]) THEN [docs |-> ds, err |-> TRUE]
    ELSE SQNextPassFrom(ps, [ds EXCEPT ![i] = ChildNext(ps[i], ds[i])],
                        cur, f, i + 1)

\* SubScorers::approximate_next, SQ arm, with s.approximate_next()?
RECURSIVE SQNextErr(_, _, _, _, _)
SQNextErr(ps, ds, cur, msm, f) ==
    IF cur = NO_MORE_DOCS THEN [docs |-> ds, curr_doc |-> cur, err |-> FALSE]
    ELSE CHOOSE r \in
       {IF p.err THEN [docs |-> p.docs, curr_doc |-> cur, err |-> TRUE]
        ELSE IF msm > DEFAULT_MIN_SHOULD_MATCH
                /\ ShouldCount(p.docs, MinDoc(p.docs)) < msm
        THEN SQNextErr(ps, p.docs, MinDoc(p.docs), msm, f)
        ELSE [docs |-> p.docs, curr_doc |-> MinDoc(p.docs), err |-> FALSE]
          : p \in {SQNextPassFrom(ps, ds, cur, f, 1)}} : TRUE

\* the for loop of approximate_advance's SQ arm from child i on
RECURSIVE SQAdvancePassFrom(_, _, _, _, _, _)
SQAdvancePassFrom(ps, ds, target, len, f, i) ==
    IF i > Len(ds) THEN [docs |-> ds, err |-> FALSE]
    ELSE IF ds[i] >= target THEN SQAdvancePassFrom(ps, ds, target, len, f, i + 1)
    ELSE IF Fails(f, i, ds[i]) THEN [docs |-> ds, err |-> TRUE]
    ELSE SQAdvancePassFrom(ps,
            [ds EXCEPT ![i] = ChildAdvance(ps[i], ds[i], target, len)],
            target, len, f, i + 1)

\* SubScorers::approximate_advance, SQ arm, with s.approximate_advance(target)?
SQAdvanceErr(ps, ds, cur, target, len, f) ==
    CHOOSE r \in
       {IF p.err THEN [docs |-> p.docs, curr_doc |-> cur, err |-> TRUE]
        ELSE [docs |-> p.docs, curr_doc |-> MinDoc(p.docs), err |-> FALSE]
          : p \in {SQAdvancePassFrom(ps, ds, target, len, f, 1)}} : TRUE

\* SubScorers::approximate_next, DPQ arm, with peek_mut().approximate_next()?
RECURSIVE DPQNextErr(_, _, _, _)
DPQNextErr(ps, ds, doc, f) ==
    CHOOSE r \in
      {IF Fails(f, t, ds[t]) THEN [docs |-> ds, err |-> TRUE]
       ELSE IF MinDoc([ds EXCEPT ![t] = ChildNext(ps[t], ds[t])]) # doc
       THEN [docs |-> [ds EXCEPT ![t] = ChildNext(ps[t], ds[t])], err |-> FALSE]
       ELSE DPQNextErr(ps, [ds EXCEPT ![t] = ChildNext(ps[t], ds[t])], doc, f)
         : t \in {Top(ds)}} : TRUE

\* SubScorers::approximate_advance, DPQ arm, with
\* peek_mut().approximate_advance(target)?
RECURSIVE DPQAdvanceErr(_, _, _, _, _)
DPQAdvanceErr(ps, ds, target, len, f) ==
    CHOOSE r \in
      {IF Fails(f, t, ds[t]) THEN [docs |-> ds, err |-> TRUE]
       ELSE IF MinDoc([ds EXCEPT ![t] = ChildAdvance(ps[t], ds[t], target, len)])
                 >= target
       THEN [docs |-> [ds EXCEPT ![t] = ChildAdvance(ps[t], ds[t], target, len)],
             err |-> FALSE]
       ELSE DPQAdvanceErr(ps,
               [ds EXCEPT ![t] = ChildAdvance(ps[t], ds[t], target, len)],
               target, len, f)
         : t \in {Top(ds)}} : TRUE

\* SubScorers over one to MaxSmall children, one of which fails on one doc
FaultInit ==
    /\ kind = "sum"
    /\ \E n \in 1 .. MaxSmall :
         /\ postings \in [1 .. n -> SUBSET DocUniverse]
         /\ scores = ChildScores(n)
         /\ docs = [i \in 1 .. n |-> -1]
         /\ fault \in [child : 1 .. n, at : {-1} \cup DocUniverse, err : {FALSE}]
    /\ rep \in {"SQ", "DPQ"}
    /\ min_should_match \in (IF rep = "SQ" THEN 1 .. MaxMsm
                             ELSE {DEFAULT_MIN_SHOULD_MATCH})
    /\ tie_breaker_multiplier = 0
    /\ needs_scores = FALSE
    /\ cost = SumCosts(ChildCosts(postings))
    /\ lenient = "stay"
    /\ curr_doc = (IF rep = "SQ" THEN SimpleQueueNew(docs) ELSE -1)
    /\ hung = FALSE
    /\ call = NoCall
    /\ emitted = NoneEmitted
    /\ lastScore = NoScore
    /\ twin = NoTwin
    /\ SparseIdle /\ NormsIdle /\ ExplIdle /\ TermIdle /\ WriterIdle /\ CommitIdle

FaultFrame ==
    /\ UNCHANGED <<kind, min_should_match, needs_scores, tie_breaker_multiplier,
                   postings, scores, lenient, rep, cost, emitted, lastScore>>
    /\ UNCHANGED <<sparseVars, normVars, explVars, termVars, writerVars,
                   commitVars, equivVars, fixedVars>>

\* next(), until a call has failed
FaultyNext ==
    /\ ~hung /\ ~fault.err
    /\ IF rep = "SQ"
       THEN \E r \in {SQNextErr(postings, docs, curr_doc, min_should_match, fault)} :
                /\ docs' = r.docs
                /\ curr_doc' = r.curr_doc
                /\ hung' = FALSE
                /\ fault' = [fault EXCEPT !.err = r.err]
                /\ call' = [op |-> "next", target |-> -1, prev |-> DocId,
                            ret |-> IF r.err THEN -1 ELSE r.curr_doc]
       ELSE IF DPQNextDiverges(docs)
            THEN /\ hung' = TRUE
                 /\ call' = [op |-> "next", target |-> -1, prev |-> DocId,
                             ret |-> -1]
                 /\ UNCHANGED <<docs, curr_doc, fault>>
            ELSE \E r \in {DPQNextErr(postings, docs, MinDoc(docs), fault)} :
                     /\ docs' = r.docs
                     /\ hung' = FALSE
                     /\ fault' = [fault EXCEPT !.err = r.err]
                     /\ call' = [op |-> "next", target |-> -1, prev |-> DocId,
                                 ret |-> IF r.err THEN -1 ELSE MinDoc(r.docs)]
                     /\ UNCHANGED curr_doc
    /\ FaultFrame

\* advance(target), until a call has failed
FaultyAdvance(target) ==
    /\ ~hung /\ ~fault.err
    /\ IF rep = "SQ"
       THEN \E r \in {SQAdvanceErr(postings, docs, curr_doc, target, lenient, fault)} :
                /\ docs' = r.docs
                /\ curr_doc' = r.curr_doc
                /\ fault' = [fault EXCEPT !.err = r.err]
                /\ call' = [op |-> "advance", target |-> target, prev |-> DocId,
                            ret |-> IF r.err THEN -1 ELSE r.curr_doc]
       ELSE \E r \in {DPQAdvanceErr(postings, docs, target, lenient, fault)} :
                /\ docs' = r.docs
                /\ fault' = [fault EXCEPT !.err = r.err]
                /\ call' = [op |-> "advance", target |-> target, prev |-> DocId,
                            ret |-> IF r.err THEN -1 ELSE MinDoc(r.docs)]
                /\ UNCHANGED curr_doc
    /\ UNCHANGED hung
    /\ FaultFrame

FaultNext ==
    \/ FaultyNext
    \/ \E target \in Targets : FaultyAdvance(target)

Spec == DisjInit /\ [][DisjNext]_vars

SpecEnumerate == DisjInit /\ [][EnumNext]_vars /\ WF_vars(DoNext)

SpecSparse == SparseInit /\ [][SparseNext]_vars

SpecNorms == NormsInit /\ [][NormsNext]_vars

SpecExplain == ExplInit /\ [][ExplNext]_vars

SpecTermOrder == TermOrderInit /\ [][TermOrderNext]_vars

SpecTermText == TermTextInit /\ [][TermTextNext]_vars

SpecWriter == WriterInit /\ [][WriterNext]_vars

SpecCommit == CommitInit /\ [][CommitNext]_vars

SpecEquiv == EquivInit /\ [][EquivNext]_vars

SpecFixed == FixedInit /\ [][FixedNext]_vars

SpecFault == FaultInit /\ [][FaultNext]_vars

(***************************************************************************)
(* Claims about the disjunction scorers.                                   *)
(***************************************************************************)
\* number of children whose posting list holds doc d
MatchCount(d) == Cardinality({i \in 1 .. Len(postings) : d \in postings[i]})

\* the docs matched by at least k children
KMatches(k) == {d \in DocUniverse : MatchCount(d) >= k}

\* the children positioned on the doc the last positioning call returned
OnDoc == {i \in 1 .. Len(docs) : docs[i] = call.ret}

\* C1: the docs a DisjunctionSumScorer with min_should_match = k returns from
\* next(), called from construction on, are exactly the docs that at least k
\* children match: up to the doc it stands on none is missing and none is extra.
C1_NextReturnsKMatches ==
    (kind = "sum" /\ emitted.only_next /\ call.op = "next" /\ ~hung) =>
        emitted.docs = {d \in KMatches(min_should_match) : d <= call.ret}

C1_Witness ==
    /\ kind = "sum" /\ min_should_match = 2 /\ emitted.only_next
    /\ call.op = "next" /\ call.ret = NO_MORE_DOCS
    /\ emitted.docs # {}
    /\ \E d \in DocUniverse : MatchCount(d) = 1

\* first doc >= t that at least k children match, or NO_MORE_DOCS
FirstKMatch(k, t) == FirstAtLeast(KMatches(k), t)

\* C2: with min_should_match = k > 1, advance(target) returns the first doc
\* >= target that at least k children match, or NO_MORE_DOCS.
C2_AdvanceReturnsKMatch ==
    (kind = "sum" /\ min_should_match > 1 /\ call.op = "advance"
        /\ call.prev < call.target) =>
        call.ret = FirstKMatch(min_should_match, call.target)

\* C3: successive next() calls return strictly increasing doc ids until
\* NO_MORE_DOCS, and NO_MORE_DOCS is reached.
C3_NextIncreasesAndEnds ==
    /\ [][(DoNext /\ ~hung') =>
            \/ call'.ret > DocId
            \/ DocId = NO_MORE_DOCS /\ call'.ret = NO_MORE_DOCS]_vars
    /\ <>(DocId = NO_MORE_DOCS)

C3_Witness ==
    /\ rep = "DPQ" /\ call.op = "next" /\ call.ret = NO_MORE_DOCS
    /\ Cardinality(emitted.docs) >= 2

\* C4: for min_should_match <= 1 and a scorer positioned before the target,
\* advance(target) returns a doc id >= target, and returns target itself
\* when some child matches it.
C4_AdvanceLandsOnTarget ==
    (min_should_match <= 1 /\ call.op = "advance" /\ call.prev < call.target) =>
        /\ call.ret >= call.target
        /\ (MatchCount(call.target) >= 1 => call.ret = call.target)

C4_Witness ==
    /\ min_should_match <= 1 /\ call.op = "advance"
    /\ call.prev >= 0 /\ call.prev < call.target
    /\ call.ret = call.target
    /\ MatchCount(call.target) >= 1 /\ MatchCount(call.target) < Len(postings)

\* the greatest score among the children of S
GreatestScore(S) == CHOOSE m \in {scores[i] : i \in S} : \A i \in S : scores[i] <= m

\* C5: the score of a DisjunctionMaxScorer with needs_scores is
\* max + (sum - max) * tie_breaker over exactly the children on its doc.
C5_ScoreMaxOverCurrentDoc ==
    (lastScore.valid /\ kind = "max" /\ needs_scores) =>
        /\ lastScore.scored = OnDoc
        /\ lastScore.value =
              GreatestScore(OnDoc)
              + (SumOver(scores, OnDoc) - GreatestScore(OnDoc)) * tie_breaker_multiplier

C5_Witness ==
    /\ lastScore.valid /\ kind = "max" /\ needs_scores
    /\ tie_breaker_multiplier = 1
    /\ Cardinality(lastScore.scored) >= 2
    /\ \E i \in 1 .. Len(docs) : docs[i] > call.ret /\ docs[i] < NO_MORE_DOCS

\* C6: the score of a DisjunctionSumScorer with needs_scores is the sum of the
\* scores of exactly the children on its doc; no other child is scored.
C6_ScoreSumOverCurrentDoc ==
    (lastScore.valid /\ kind = "sum" /\ needs_scores) =>
        /\ lastScore.scored = OnDoc
        /\ lastScore.value = SumOver(scores, OnDoc)

C6_Witness ==
    /\ lastScore.valid /\ kind = "sum" /\ needs_scores /\ rep = "SQ"
    /\ lastScore.scored # {}
    /\ \E i \in 1 .. Len(docs) : docs[i] > call.ret /\ docs[i] < NO_MORE_DOCS

\* C7: doc_id() is -1 before the first positioning call and afterwards the
\* value the last next() or advance() returned.
C7_DocIdIsLastReturn ==
    /\ call.op = "none" => DocId = -1
    /\ (call.op # "none" /\ ~hung) => DocId = call.ret

C7_Witness ==
    /\ call.op = "advance" /\ Positioned /\ DocId = call.ret /\ lastScore.valid
(***************************************************************************)
(* Claims about SparseBits.                                                *)
(***************************************************************************)
\* doc_id is an element of doc_ids
IsMember(doc_id) == \E i \in 1 .. Len(sparse.doc_ids) : sparse.doc_ids[i] = doc_id

\* C8: while every get64 made through the cursor has a doc id in [0, max_doc),
\* each call answers true exactly for the elements of doc_ids, whatever the
\* earlier calls were, and answers as a fresh cursor does; so does Bits::get.
C8_Get64IsMembership ==
    (bitsCall.op # "none" /\ bitsCall.clean /\ bitsCall.doc_id < sparse.max_doc) =>
        /\ bitsCall.res = (IF IsMember(bitsCall.doc_id) THEN "true" ELSE "false")
        /\ bitsCall.res =
              Get64(sparse, ContextNew(sparse.first_doc_id), bitsCall.doc_id).res

C8_Witness ==
    /\ bitsCall.op = "get64" /\ bitsCall.clean
    /\ bitsCall.prev > bitsCall.doc_id
    /\ bitsCall.res = "true"
    /\ ctx.index >= 1
    /\ sparse.doc_ids_length >= 4

(***************************************************************************)
(* Claims about NormValuesWriter.                                          *)
(***************************************************************************)
\* the value flush owes doc d: the one added for it, MISSING otherwise
NormOf(d) ==
    IF \E p \in added : p[1] = d
    THEN (CHOOSE p \in added : p[1] = d)[2]
    ELSE 0

\* C9: without a sort map the consumer is handed max_doc values in doc id
\* order: the value added for doc d at position d, and 0 where none was added.
C9_FlushHandsNormsInDocOrder ==
    (iter.state \in {"ready", "done", "panic"}) =>
        /\ iter.state # "panic"
        /\ Len(iter.out) = iter.upto
        /\ \A j \in 1 .. Len(iter.out) : iter.out[j] = NormOf(j - 1)
        /\ iter.state = "done" => Len(iter.out) = iter.max_doc

C9_Witness ==
    /\ iter.state = "done"
    /\ Len(iter.out) = InitialBits + 1
    /\ iter.out[1] = 0 /\ <<0, 0>> \notin added
    /\ iter.out[2] # 0
    /\ iter.out[InitialBits + 1] # 0

(***************************************************************************)
(* Claims about Explanation.                                               *)
(***************************************************************************)
\* every node of the tree e has value 0 unless it is a match
RECURSIVE NonMatchesAreZero(_)
NonMatchesAreZero(e) ==
    /\ ~e.is_match => e.value = 0
    /\ \A i \in 1 .. Len(e.details) : NonMatchesAreZero(e.details[i])

\* C10: an Explanation built by Explanation::new has value 0 when is_match is
\* false and the value passed when it is true, its details are the ones
\* passed, and so every node of its tree has value 0 unless it is a match.
C10_NonMatchValueIsZero ==
    explArgs.called =>
        /\ expl.is_match = explArgs.is_match
        /\ expl.value = (IF explArgs.is_match THEN explArgs.value ELSE 0)
        /\ expl.details = explArgs.details
        /\ NonMatchesAreZero(expl)

C10_Witness ==
    /\ explArgs.called /\ ~explArgs.is_match /\ explArgs.value # 0
    /\ expl.value = 0
    /\ Len(expl.details) = 2
    /\ expl.details[1].is_match /\ expl.details[1].value # 0
    /\ expl.details[1].details # <<>>

\* the children's costs added up
TotalChildCost ==
    LET cs == ChildCosts(postings)
        RECURSIVE Upto(_)
        Upto(n) == IF n = 0 THEN 0 ELSE Upto(n - 1) + cs[n]
    IN  Upto(Len(cs))

\* C13: cost() is the sum of the children's cost() taken at construction,
\* stays the same whatever is called on the scorer, and, the children's
\* costs being at least their doc counts, is at least the number of docs
\* next() has returned.
C13_CostIsSumAndBoundsNext ==
    /\ cost = TotalChildCost
    /\ Cardinality(emitted.docs) <= cost

\* next() has returned as many docs as cost() allows, and more than one
C13_Witness ==
    /\ call.op = "next"
    /\ Cardinality(emitted.docs) = cost
    /\ cost > 1

(***************************************************************************)
(* Claims about Term.                                                      *)
(***************************************************************************)
\* x comes before y lexicographically: they agree on a prefix after which x
\* ends, or holds the smaller element
LexLess(x, y) ==
    \E k \in 0 .. Min2(Len(x), Len(y)) :
        /\ \A i \in 1 .. k : x[i] = y[i]
        /\ \/ k = Len(x) /\ k < Len(y)
           \/ k < Len(x) /\ k < Len(y) /\ x[k + 1] < y[k + 1]

\* field first, the bytes only between equal fields
TermBefore(s, t) ==
    IF s.field # t.field THEN LexLess(s.field, t.field)
    ELSE LexLess(s.bytes, t.bytes)

Flip(o) == IF o = "Less" THEN "Greater" ELSE IF o = "Greater" THEN "Less" ELSE "Equal"

\* C11: comparing two Terms orders them by field name first and by the raw
\* bytes only between equal fields, both lexicographically; the comparison
\* is a total order (exactly one of less, equal, greater, reversed by swapping
\* the operands, transitive); == holds exactly when field and bytes are both
\* equal, and a clone compares equal to its original.
C11_TermOrderIsFieldThenBytes ==
    termCall.op = "cmp" =>
        /\ (termCall.ord = "Less") <=> TermBefore(terms.a, terms.b)
        /\ (termCall.ord = "Greater") <=> TermBefore(terms.b, terms.a)
        /\ (termCall.ord = "Equal") <=> termCall.eq
        /\ termCall.eq <=>
              (terms.a.field = terms.b.field /\ terms.a.bytes = terms.b.bytes)
        /\ TermCmp(terms.b, terms.a) = Flip(termCall.ord)
        /\ \A c \in OrderTerms :
              (termCall.ord # "Greater" /\ TermCmp(terms.b, c) # "Greater")
                  => TermCmp(terms.a, c) # "Greater"
        /\ terms.src.ctor = "clone" => (termCall.eq /\ termCall.ord = "Equal")

\* two terms whose fields and bytes order them in opposite ways were compared
C11_Witness ==
    /\ termCall.op = "cmp"
    /\ LexLess(terms.a.field, terms.b.field)
    /\ LexLess(terms.b.bytes, terms.a.bytes)
    /\ termCall.ord = "Less"

\* the chars whose UTF-8 bytes are all in TermBytes (none is past 2FFF)
TermChars ==
    {c \in 0 .. 12287 :
        /\ ~(c >= 55296 /\ c <= 57343)
        /\ \A i \in 1 .. Len(Utf8EncodeChar(c)) : Utf8EncodeChar(c)[i] \in TermBytes}

\* the strings whose UTF-8 form is a byte string a term is built from
ValidTexts == {s \in SeqsUpTo(TermChars, MaxTermLen) : Len(StrBytes(s)) <= MaxTermLen}

ValidEncodings == {StrBytes(s) : s \in ValidTexts}

HexVal(c) ==
    IF c >= 48 /\ c <= 57 THEN c - 48
    ELSE IF c >= 65 /\ c <= 70 THEN c - 55 ELSE -1000

\* out is "[XX, XX, ...]": one two-digit upper-case hex number per byte
IsHexListOf(out, bytes) ==
    LET n == Len(bytes)
    IN  /\ n >= 1
        /\ Len(out) = 4 * n
        /\ out[1] = 91 /\ out[4 * n] = 93
        /\ \A i \in 1 .. n :
              HexVal(out[4 * i - 2]) * 16 + HexVal(out[4 * i - 1]) = bytes[i]
        /\ \A i \in 1 .. n - 1 : out[4 * i] = 44 /\ out[4 * i + 1] = 32

\* out is the text the claim gives the term
IsTextOf(out) ==
    /\ terms.src.ctor = "from_str" => out = terms.src.text
    /\ terms.src.ctor = "new" =>
          IF terms.a.bytes \in ValidEncodings
          THEN out \in ValidTexts /\ StrBytes(out) = terms.a.bytes
          ELSE IsHexListOf(out, terms.a.bytes)

\* C12: text() is the string whose UTF-8 encoding the term's bytes are, when
\* there is one (so a term made by from_str(f, s) has text s), and otherwise
\* "[XX, XX, ...]" with one two-digit upper-case hex number per byte;
\* to_string() is the field, a colon and text().
C12_TextIsUtf8OrHex ==
    /\ termCall.op = "text" => IsTextOf(termCall.out)
    /\ termCall.op = "to_string" =>
          LET n == Len(terms.a.field)
          IN  /\ Len(termCall.out) > n
              /\ SubSeq(termCall.out, 1, n) = terms.a.field
              /\ termCall.out[n + 1] = 58
              /\ IsTextOf(SubSeq(termCall.out, n + 2, Len(termCall.out)))

\* the text of bytes that are not UTF-8 and hold a byte below 16 was taken
C12_Witness ==
    /\ termCall.op = "text"
    /\ terms.a.bytes = <<255, 10>>
    /\ termCall.out = <<91, 70, 70, 44, 32, 48, 65, 93>>

(***************************************************************************)
(* Claims about the index writer.  seen is the callers' account: adds[u]   *)
(* is the u-th successful add (its term and the doc id it was given),      *)
(* buffered the adds since the writer's last commit, flushed the adds that *)
(* reached a commit, pending the documents added and not deleted, and      *)
(* committed what pending was at the last commit, and updates the adds     *)
(* made by an update_document call that had a document to replace.         *)
(***************************************************************************)
\* number of members of S below u
RankIn(S, u) == Cardinality({v \in S : v < u})

\* the segments that hold the document with value u at doc id d
HoldingAt(u, d) ==
    {i \in 1 .. Len(index.segments) :
        /\ d < index.segments[i].max_doc
        /\ index.segments[i].docs[d + 1].val = u}

\* C14: the doc id add_document returns is the number of documents added to
\* the buffer before it, so the adds into one buffer are numbered 0, 1, 2,
\* ... in call order, and a document that reached a commit is found in its
\* segment under the doc id it was given.
C14_DocIdsFollowCallOrder ==
    /\ \A u \in seen.buffered : seen.adds[u].doc_id = RankIn(seen.buffered, u)
    /\ (wcall.op \in {"add_document", "update_document"} /\ wcall.res = "ok") =>
          wcall.doc_id = Cardinality(seen.buffered) - 1
    /\ \A u \in seen.flushed : HoldingAt(u, seen.adds[u].doc_id) # {}

\* the second document added to a buffer was given doc id 1 and is live
\* under it in the commit
C14_Witness ==
    /\ wcall.op = "commit" /\ wcall.res = "ok"
    /\ Len(seen.adds) = 2 /\ seen.adds[2].doc_id = 1
    /\ \E i \in 1 .. Len(index.segments) :
          /\ 1 \in index.segments[i].live
          /\ index.segments[i].docs[2].val = 2

\* C15: a reader on the latest commit exposes exactly the documents added
\* and not deleted before that commit, each under the doc id of its place
\* among the committed adds, with the term and the stored value its
\* add_document call was given.
C15_ReaderSeesSurvivors ==
    ReaderTriples(index) =
        {<<RankIn(seen.flushed, u), seen.adds[u].key, u>> : u \in seen.committed}

\* the latest commit holds a deleted document and, in a later segment, a
\* live one
C15_Witness ==
    /\ wcall.op = "commit" /\ wcall.res = "ok"
    /\ Len(index.segments) = 2
    /\ index.segments[1].live = {}
    /\ index.segments[2].live # {}

LiveWriters == {w \in Writers : wr[w].state \in {"Open", "Failed"}}

\* C16: at most one writer is live on the directory; write.lock is held by
\* the live writer from its open to its close; opening a writer while another
\* is live fails with IllegalState("lock held") and leaves the lock, the
\* live writer and the index as they were.
C16_OneLiveWriter ==
    /\ [](/\ Cardinality(LiveWriters) <= 1
          /\ \A w \in Writers : (lock = w) <=> (w \in LiveWriters)
          /\ (wcall.op = "open" /\ wcall.res # "ok") =>
                (wcall.res = "IllegalState(lock held)" /\ wr[wcall.w].state = "None"))
    /\ [][(wcall'.op = "open" /\ wcall' # wcall) =>
             IF LiveWriters # {}
             THEN /\ wcall'.res = "IllegalState(lock held)"
                  /\ UNCHANGED <<lock, wr, index, seen>>
             ELSE wcall'.res = "ok" /\ lock' = wcall'.w]_vars

\* a second writer was refused while the first held buffered documents
C16_Witness ==
    /\ wcall.op = "open" /\ wcall.res = "IllegalState(lock held)"
    /\ wr[1].state = "Open" /\ wr[1].buffer # <<>>
    /\ lock = 1

MutatingCalls == {"add_document", "update_document", "delete_documents", "commit"}

\* C17: a Failed writer never becomes Open again; every add_document,
\* update_document, delete_documents and commit on it fails with
\* AlreadyClosed and changes neither the index nor the writer nor the lock;
\* closing it releases write.lock.
C17_FailedStaysFailed ==
    [][\A w \in Writers :
          wr[w].state = "Failed" =>
             /\ wr'[w].state \in {"Failed", "Closed"}
             /\ (wcall'.w = w /\ wcall'.op \in MutatingCalls /\ wcall' # wcall) =>
                   /\ wcall'.res = "AlreadyClosed"
                   /\ UNCHANGED <<lock, wr, index, seen>>
             /\ (wcall'.w = w /\ wcall'.op = "close") =>
                   (wr'[w].state = "Closed" /\ lock' = 0)]_vars

\* update_document was refused by a Failed writer after a commit had been made
C17_Witness ==
    /\ wcall.op = "update_document" /\ wcall.res = "AlreadyClosed"
    /\ wr[wcall.w].state = "Failed"
    /\ index.gen >= 1

\* C20: a commit leaves the segments that were there where they were, with
\* their documents and max_doc; the reader's max_doc counts every document
\* that reached a commit, deleted or not, num_docs is max_doc less the
\* deleted ones, and as many docs are live.
C20_DeletesKeepMaxDoc ==
    /\ [](/\ ReaderMaxDoc(index) = Cardinality(seen.flushed)
          /\ ReaderNumDocs(index) =
                ReaderMaxDoc(index) - Cardinality(seen.flushed \ seen.committed)
          /\ LiveCardinality(index) = ReaderNumDocs(index))
    /\ [][\A i \in 1 .. Len(index.segments) :
             /\ Len(index'.segments) >= i
             /\ index'.segments[i].name = index.segments[i].name
             /\ index'.segments[i].max_doc = index.segments[i].max_doc
             /\ index'.segments[i].docs = index.segments[i].docs]_vars

\* a commit deleted one of the two documents of an earlier segment
C20_Witness ==
    /\ wcall.op = "commit" /\ wcall.res = "ok"
    /\ index.gen = 2
    /\ Len(index.segments) = 1
    /\ index.segments[1].max_doc = 2
    /\ index.segments[1].del_count = 1
    /\ Cardinality(index.segments[1].live) = 1


(***************************************************************************)
(* Claims about the commit protocol and the segment files.                 *)
(***************************************************************************)
PinCount(n) ==
    Cardinality({r \in Readers : mem.opened[r].open /\ n \in mem.opened[r].segs})

C19_CommitIsCrashSafe ==
    /\ ReadableCommits(disk) # {}
    /\ HighestReadable(disk).segs \subseteq AllFiles(disk)
    /\ HighestReadable(disk).gen = mem.doneGen

C19_Witness ==
    /\ mem.down
    /\ HighestReadable(disk).segs # {}
    /\ \E c \in disk.sis : ~c.complete /\ c.segs # HighestReadable(disk).segs

\* the stored values a reader of the commit ix exposes
Visible(ix) == {t[3] : t \in ReaderTriples(ix)}

\* what a reader obtained from writer w now would expose: the commit, the
\* buffer flushed and the queued deletes applied
NrtVisibleIn(ix, writer) == Visible(CommitIndex(ix, writer.buffer, writer.deletes))

NrtVisible(w) == NrtVisibleIn(index, wr[w])

\* the documents an update_document call replaced: the earlier adds with
\* the same term
ReplacedIn(adds, u) == {v \in 1 .. (u - 1) : adds[v].key = adds[u].key}

Replaced(u) == ReplacedIn(seen.adds, u)

C22_AdvanceMovesOnlyChildrenBehind ==
    [][(call'.op = "advance" /\ ~hung) =>
          /\ \A i \in AdvanceCalled(rep, postings, docs, call'.target, lenient) :
                docs[i] < call'.target
          /\ \A i \in 1 .. Len(docs) :
                docs[i] >= call'.target => docs'[i] = docs[i]]_vars

\* C23: put over the same children with min_should_match <= 1, the simple
\* queue and the priority queue answer every sequence of next() and
\* advance(target) calls alike: both return, with the same doc id, report
\* the same doc_id(), and give the same score on every doc.
C23_QueuesAreEquivalent ==
    /\ ~twin.hung
    /\ call.op # "none" => twin.ret = call.ret
    /\ MinDoc(twin.docs) = curr_doc
    /\ twin.score.valid = lastScore.valid
    /\ lastScore.valid => twin.score.value = lastScore.value

\* C24: a DisjunctionSumScorer is backed by the simple queue exactly when it
\* has fewer than 10 children or min_should_match > 1, and by the priority
\* queue otherwise, so never by the priority queue when min_should_match > 1;
\* a DisjunctionMaxScorer is backed by the simple queue exactly when it has
\* fewer than 10 children.
C24_QueueChoice ==
    /\ rep \in {"SQ", "DPQ"}
    /\ kind = "sum" =>
          /\ rep = "SQ" <=> (Len(postings) < 10 \/ min_should_match > 1)
          /\ min_should_match > 1 => rep # "DPQ"
    /\ kind = "max" => (rep = "SQ" <=> Len(postings) < 10)

C24_Witness ==
    /\ kind = "sum" /\ Len(postings) = 10 /\ min_should_match > 1
    /\ rep = "SQ" /\ call.op = "next" /\ call.ret = NO_MORE_DOCS
    /\ \E d \in DocUniverse : MatchCount(d) > 0

(***************************************************************************)
(* Further claims about NormValuesWriter.                                  *)
(***************************************************************************)
AddedDocs == {p[1] : p \in added}

\* C25: last_doc starts at -1; every accepted add_value has a doc id above
\* last_doc; after the accepted calls last_doc is the largest doc id added,
\* and docs_with_field holds, within its length, a set bit for exactly the
\* doc ids added.
C25_AddValueAscending ==
    /\ [](/\ (added = {} => norms.last_doc = -1)
          /\ (added # {} =>
                 /\ norms.last_doc \in AddedDocs
                 /\ \A d \in AddedDocs : d <= norms.last_doc)
          /\ \A d \in 0 .. (InitialBits + 1) :
                 (d < BitSetLen(norms.docs_with_field)
                     /\ BitSetGet(norms.docs_with_field, d)) <=> d \in AddedDocs
          /\ Len(norms.pending) = Cardinality(AddedDocs))
    /\ [][norms' # norms => norms.last_doc < norms'.last_doc]_vars

C25_Witness ==
    /\ Cardinality(AddedDocs) = 2
    /\ norms.last_doc = InitialBits
    /\ 0 \notin AddedDocs

(***************************************************************************)
(* Further claims about SparseBits and FixedBits.                          *)
(***************************************************************************)
\* C26: SparseBits::new fails with IllegalArgument, and no SparseBits comes
\* to be, exactly when doc_ids is non-empty and max_doc <= its last element;
\* otherwise it builds the SparseBits of its arguments, and over an empty
\* doc_ids every get64 with a doc id in [0, max_doc) answers false.
C26_NewChecksMaxDoc ==
    /\ sparse.status = "IllegalArgument" <=>
          /\ Len(sparseArgs.doc_ids) > 0
          /\ sparseArgs.max_doc <= sparseArgs.doc_ids[Len(sparseArgs.doc_ids)]
    /\ sparse.status = "IllegalArgument" =>
          (bitsCall.op = "none" /\ sparse.doc_ids = <<>>)
    /\ sparse.status # "IllegalArgument" =>
          /\ sparse.status = "ok"
          /\ sparse.max_doc = sparseArgs.max_doc
          /\ sparse.doc_ids = sparseArgs.doc_ids
          /\ sparse.doc_ids_length = Len(sparseArgs.doc_ids)
    /\ (sparseArgs.doc_ids = <<>> /\ bitsCall.op # "none"
          /\ bitsCall.doc_id < sparseArgs.max_doc) => bitsCall.res = "false"

C26_Witness ==
    /\ sparseArgs.doc_ids = <<>> /\ sparseArgs.max_doc >= 2
    /\ bitsCall.op = "get64" /\ bitsCall.res = "false"
    /\ bitsCall.prev > bitsCall.doc_id
\* bit (i mod 64) of word (i div 64) of the backing array is set
BitIsSet(i) ==
    /\ i \div 64 < Len(fixed.bits)
    /\ (i % 64) \in fixed.bits[(i \div 64) + 1]

\* C27: FixedBits::get(i) for i < len returns true exactly when bit
\* (i mod 64) of word (i div 64) of the backing array is set, and len()
\* returns the length given at construction, whatever the number of words.
C27_GetReadsItsBit ==
    /\ (fixedCall.op = "get" /\ fixedCall.index < fixed.len) =>
          fixedCall.res = (IF BitIsSet(fixedCall.index) THEN "true" ELSE "false")
    /\ fixedCall.op = "len" => fixedCall.res = fixed.len

\* C28: in the simple-queue representation curr_doc is the minimum of the
\* children's doc_id, after construction and after every next() and
\* advance(), also when next() passes over docs that fewer than
\* min_should_match children match.
C28_CurrDocIsMinimum ==
    rep = "SQ" =>
        /\ \A i \in 1 .. Len(docs) : curr_doc <= docs[i]
        /\ \/ \E i \in 1 .. Len(docs) : curr_doc = docs[i]
           \/ curr_doc = NO_MORE_DOCS

C28_Witness ==
    /\ rep = "SQ" /\ min_should_match = 2
    /\ call.op = "next" /\ call.prev = -1 /\ call.ret = 1
    /\ MatchCount(0) = 1
    /\ curr_doc = 1 /\ \A i \in 1 .. Len(docs) : docs[i] = 1

\* C29: next() on an exhausted scorer, whose children all stand on
\* NO_MORE_DOCS and stay there, returns, and returns NO_MORE_DOCS again, in
\* both representations.
C29_NextAtEndReturns ==
    (call.op = "next" /\ call.prev = NO_MORE_DOCS) =>
        (~hung /\ call.ret = NO_MORE_DOCS /\ DocId = NO_MORE_DOCS)

\* C30: when a child's approximate_next or approximate_advance returns an
\* error during next() or advance(), the call returns the error and no doc
\* id, and in the simple-queue representation curr_doc, hence doc_id(), is
\* what it was before the call.
C30_ChildErrorSurfaces ==
    fault.err =>
        /\ call.ret = -1
        /\ rep = "SQ" => (curr_doc = call.prev /\ DocId = call.prev)

\* the same for advance() alone, and for next() when no doc was skipped
C30_FirstPassKeepsCurrDoc ==
    (fault.err /\ rep = "SQ"
       /\ (call.op = "advance" \/ min_should_match = DEFAULT_MIN_SHOULD_MATCH))
        => curr_doc = call.prev

(***************************************************************************)
(* Further claims about the SparseBits cursor.                             *)
(***************************************************************************)
\* C31: get64 with a doc id at or past max_doc never returns Ok; it returns
\* IllegalState, from a fresh cursor and from one left by any earlier calls,
\* over empty and non-empty doc_ids.
C31_PastMaxDocIsIllegalState ==
    (bitsCall.op = "get64" /\ bitsCall.doc_id >= sparse.max_doc) =>
        bitsCall.res = "IllegalState"

C31_Witness ==
    /\ bitsCall.op = "get64" /\ bitsCall.doc_id >= sparse.max_doc
    /\ bitsCall.prev >= 0 /\ bitsCall.prev < bitsCall.doc_id
    /\ sparse.doc_ids_length >= 2
    /\ bitsCall.res = "IllegalState"

\* C32: a get64 that follows a failed one (a call with a doc id at or past
\* max_doc) through the same cursor and has its doc id in [0, max_doc)
\* returns Ok with the membership answer.
C32_CursorUsableAfterError ==
    (bitsCall.op = "get64" /\ ~bitsCall.clean
       /\ bitsCall.doc_id < sparse.max_doc) =>
        bitsCall.res = (IF IsMember(bitsCall.doc_id) THEN "true" ELSE "false")

\* C35: after a successful get64(ctx, doc_id) the cursor brackets doc_id,
\* ctx.doc_id is the element at ctx.index (or both are -1), and
\* ctx.next_doc_id is the element after it (or max_doc past the last one).
C35_CursorBracketsDocId ==
    (bitsCall.op = "get64" /\ bitsCall.res \in {"true", "false"}) =>
        /\ ctx.doc_id <= bitsCall.doc_id /\ bitsCall.doc_id < ctx.next_doc_id
        /\ \/ ctx.index = -1 /\ ctx.doc_id = -1
           \/ InIds(sparse, ctx.index) /\ ctx.doc_id = IdAt(sparse, ctx.index)
        /\ \/ InIds(sparse, ctx.index + 1)
                /\ ctx.next_doc_id = IdAt(sparse, ctx.index + 1)
           \/ ctx.index + 1 = sparse.doc_ids_length
                /\ ctx.next_doc_id = sparse.max_doc

C35_Witness ==
    /\ bitsCall.op = "get64" /\ bitsCall.res = "false"
    /\ ~bitsCall.clean
    /\ ctx.index >= 1 /\ ctx.index + 1 < sparse.doc_ids_length
    /\ ctx.doc_id < bitsCall.doc_id

\* the indices below len whose get answers true
TrueIndices == {i \in 0 .. (fixed.len - 1) : FixedBitsGet(fixed, i) = "true"}

\* C33: cardinality() is the number of indices i in [0, len) with get(i)
\* true, for every word array and len FixedBits::new accepts.
C33_CardinalityCountsTrueBits ==
    fixedCall.op = "cardinality" => fixedCall.res = Cardinality(TrueIndices)

\* C34: for every implementation of Bits, is_empty() is true exactly when
\* len() is 0.
C34_IsEmptyIsLenZero ==
    fixedCall.op = "is_empty" =>
        (fixedCall.res = "true" <=> fixedCall.index = 0)

(***************************************************************************)
(* Further claims about the norms iterator.                                *)
(***************************************************************************)
\* the number of docs with the field that NumericIter has passed
PresentBelow(n) == Cardinality({d \in norms.docs_with_field.bits : d < n})

\* C36: after add_value calls with ascending doc ids pending holds as many
\* values as docs_with_field has bits set, and the iterator of flush takes
\* one pending value per present doc and never runs out of them, whatever
\* max_doc is.
C36_OneValuePerPresentDoc ==
    /\ Len(norms.pending) = Cardinality(norms.docs_with_field.bits)
    /\ iter.state # "panic"
    /\ iter.state \in {"ready", "done"} =>
          /\ iter.values_upto = PresentBelow(iter.upto)
          /\ iter.values_upto <= Len(norms.pending)

C36_Witness ==
    /\ iter.state = "done"
    /\ Len(norms.pending) >= 2
    /\ iter.values_upto = 1
    /\ iter.max_doc <= norms.last_doc
    /\ iter.out[1] = MISSING

\* the items a first pass over the flushed norms yields
FirstPass == RunToEnd(NumericIterNew(iter.max_doc), norms).out

\* C37: after reset(), at any point of a pass, the iterator yields again
\* the max_doc values of the first pass in the same order.
C37_ResetReplaysFirstPass ==
    (iter.replayed /\ iter.state # "none") =>
        /\ iter.state # "panic"
        /\ Len(iter.out) <= Len(FirstPass)
        /\ iter.out = SubSeq(FirstPass, 1, Len(iter.out))
        /\ Len(RunToEnd(iter, norms).out) = iter.max_doc
        /\ RunToEnd(iter, norms).out = FirstPass

C37_Witness ==
    /\ iter.replayed /\ iter.state = "done"
    /\ Len(iter.out) >= 2
    /\ \E j \in 1 .. Len(iter.out) : iter.out[j] # MISSING
    /\ \E j \in 1 .. Len(iter.out) : iter.out[j] = MISSING

=============================================================================
